---- MODULE Spec2Model ----
(***************************************************************************)
(* A model of legal_indexer: the concept indexer (indexer.py), the pattern *)
(* catalog (config.py), the exporter and the outline builder (utils.py),   *)
(* the text extractor (extractor.py) and the command line run (main.py).   *)
(*                                                                         *)
(* A page text is a sequence of lexemes.  A lexeme is the text of one      *)
(* regular-expression match (a word, a phrase, a citation, a parenthesised *)
(* subdivision) or one whitespace character.  A match of a pattern is the  *)
(* position of a lexeme the pattern matches; match.start() is that         *)
(* position minus one and match.end() is the position.  Every page text of *)
(* the model is shorter than the context window, as a text of less than    *)
(* 100 characters is.                                                      *)
(***************************************************************************)
EXTENDS Integers, Sequences, FiniteSets, TLC

VARIABLES
    legal_terms,        \* LegalIndexer.legal_terms: category -> terms, in file order
    page_offset,        \* LegalIndexer.page_offset
    terms_only,         \* LegalIndexer.terms_only
    index,              \* LegalIndexer.index: term -> category -> occurrences
    cross_references,   \* LegalIndexer.cross_references: term -> set of terms
    current_headings,   \* LegalIndexer.current_headings
    last_call,          \* the call that led to this state, with its arguments
    ncalls,             \* number of indexing calls made so far
    toc,                \* LegalIndexGenerator.toc: the outline
    exporter,           \* the Exporter built by save_output, or NoExporter
    outputs,            \* format -> what the last export in that format produced
    env,                \* what a run is given: arguments, files, the document
    run,                \* the position and the visible effects of a run
    page_content        \* LegalIndexGenerator.page_content: page number -> text

vars == <<legal_terms, page_offset, terms_only, index, cross_references,
          current_headings, last_call, ncalls, toc, exporter, outputs,
          env, run, page_content>>

-----------------------------------------------------------------------------
(* Bounds *)

MaxCalls == 2

MaxAdds == 2

-----------------------------------------------------------------------------
(* Python values *)

None == "<None>"

Max(a, b) == IF a >= b THEN a ELSE b

Min(a, b) == IF a <= b THEN a ELSE b

RECURSIVE Concat(_)
Concat(ss) == IF ss = <<>> THEN <<>> ELSE Head(ss) \o Concat(Tail(ss))

InSeq(x, s) == \E i \in 1..Len(s) : s[i] = x

(* A dict keeps its keys in insertion order: a sequence of <<key, value>>. *)
DictHas(d, k) == \E i \in 1..Len(d) : d[i][1] = k

DictGet(d, k) == d[CHOOSE i \in 1..Len(d) : d[i][1] = k][2]

DictPut(d, k, v) ==
    IF DictHas(d, k)
    THEN [i \in 1..Len(d) |-> IF d[i][1] = k THEN <<k, v>> ELSE d[i]]
    ELSE Append(d, <<k, v>>)

Buckets(data) == {data[i][1] : i \in 1..Len(data)}

Entries(bucket) == {bucket[i] : i \in 1..Len(bucket)}

(* defaultdict(list).__getitem__ and defaultdict(lambda: defaultdict(list)) *)
DefaultGet(d, k) == IF DictHas(d, k) THEN DictGet(d, k) ELSE <<>>

-----------------------------------------------------------------------------
(* Lexemes and str methods *)

Whitespace == {" ", "\n"}

lower(s) ==
    CASE s = "NEGLIGENCE" -> "negligence"
      [] s = "Smith v. Jones" -> "smith v. jones"
      [] s = "CPLR 3212" -> "cplr 3212"
      [] OTHER -> s

title(s) ==
    CASE lower(s) = "negligence" -> "Negligence"
      [] lower(s) = "corporation" -> "Corporation"
      [] lower(s) = "corp" -> "Corp"
      [] lower(s) = "consideration" -> "Consideration"
      [] lower(s) = "cplr 3212" -> "Cplr 3212"
      [] lower(s) = "smith v. jones" -> "Smith V. Jones"
      [] OTHER -> s

isnumeric(s) == s \in {"12"}   \* the one string of the model that consists of digits only

text_lower(text) == [i \in 1..Len(text) |-> lower(text[i])]

RECURSIVE lstrip(_)
lstrip(text) ==
    IF text # <<>> /\ Head(text) \in Whitespace THEN lstrip(Tail(text)) ELSE text

RECURSIVE rstrip(_)
rstrip(text) ==
    IF text # <<>> /\ text[Len(text)] \in Whitespace
    THEN rstrip(SubSeq(text, 1, Len(text) - 1))
    ELSE text

strip(text) == rstrip(lstrip(text))

replace_newline(text) == [i \in 1..Len(text) |-> IF text[i] = "\n" THEN " " ELSE text[i]]

-----------------------------------------------------------------------------
(* config.py: a pattern is the set of lexemes it matches under re.IGNORECASE *)

STATUTORY_PATTERNS ==
    << <<"statutory_references", << {}, {"CPLR 3212"}, {}, {}, {} >> >> >>

CASE_LAW_PATTERNS ==
    << <<"case_law_references", << {"Smith v. Jones"}, {}, {} >> >> >>

GENERAL_PATTERNS == << <<"subdivisions", {"(a)"}>> >>

PHRASE_PATTERNS == << {"consideration"} >>

(* re.finditer(pattern, text, re.IGNORECASE): the matches, left to right *)
finditer(pattern, text) ==
    SelectSeq([i \in 1..Len(text) |-> i],
              LAMBDA i : \E p \in pattern : lower(text[i]) = lower(p))

(* The names indexer.py imports from config.py (line 4) *)
ModuleGlobals ==
    {"STATUTORY_PATTERNS", "CASE_LAW_PATTERNS", "GENERAL_PATTERNS", "PHRASE_PATTERNS"}

-----------------------------------------------------------------------------
(* Inputs *)

NoHeadings == <<None, None, None, None, None>>

HeadingPaths == {NoHeadings, <<"PART I", "Scope", "Venue", None, None>>}

PageTexts ==
    { <<>>,
      <<"NEGLIGENCE", " ", "Smith v. Jones">>,
      <<"negligence", "\n", "negligence">>,
      <<"corporation", " ", "corp", " ", "(a)">>,
      <<" ", "consideration", " ", "CPLR 3212">> }

RawPages == {1, 2}

PageOffsets == {-1, 0, 2}

LegalTermsChoices ==
    { << <<"criminal_law", <<"negligence">> >>,
         <<"torts", <<"negligence">> >>,
         <<"contracts", <<"consideration">> >>,
         <<"business_entities", <<"corporation", "corp">> >> >>,
      << <<"business_entities", <<"corporation">> >>,
         <<"torts", <<"NEGLIGENCE">> >> >> }

-----------------------------------------------------------------------------
(* indexer.py: LegalIndexer *)

context_window == 100

(* page_num -= self.page_offset (lines 35 and 72) *)
adjust_page_clamped(raw_page, offset) == Max(1, raw_page - offset)

adjust_page(raw_page, offset) == raw_page - offset

_add_to_index_no_dedup(idx, term, category, page_num, m, text, headings) ==
    LET entry == <<page_num, replace_newline(strip(text)), headings>>
        data == DefaultGet(idx, term)
        bucket == DefaultGet(data, category)
        data1 == DictPut(data, category,
                         IF InSeq(entry, bucket) THEN bucket ELSE Append(bucket, entry))
        all == DefaultGet(data1, "all_references")
    IN  DictPut(idx, term, DictPut(data1, "all_references", Append(all, entry)))

_add_to_index(idx, term, category, page_num, m, text, headings) ==
    LET start == Max(0, (m - 1) - context_window)
        end == Min(Len(text), m + context_window)
        snippet == replace_newline(strip(SubSeq(text, start + 1, end)))
        entry == <<page_num, snippet, headings>>
        data == DefaultGet(idx, term)
        bucket == DefaultGet(data, category)
        data1 == DictPut(data, category,
                         IF InSeq(entry, bucket) THEN bucket ELSE Append(bucket, entry))
        all == DefaultGet(data1, "all_references")
        data2 == DictPut(data1, "all_references",
                         IF InSeq(entry, all) THEN all ELSE Append(all, entry))
    IN  DictPut(idx, term, data2)

(* The calls of _add_to_index a loop makes, in order: [term, category, m] *)
RECURSIVE add_hits(_, _, _, _, _)
add_hits(idx, hits, page_num, text, headings) ==
    IF hits = <<>> THEN idx
    ELSE add_hits(_add_to_index(idx, Head(hits).term, Head(hits).category, page_num,
                                Head(hits).m, text, headings),
                  Tail(hits), page_num, text, headings)

(* for category, patterns in X.items(): for pattern in patterns: for match ... *)
pattern_hits(patterns_by_category, text) ==
    Concat([c \in 1..Len(patterns_by_category) |->
        LET category == patterns_by_category[c][1]
            patterns == patterns_by_category[c][2]
        IN  Concat([p \in 1..Len(patterns) |->
                LET ms == SelectSeq(finditer(patterns[p], text),
                                    LAMBDA m : ~isnumeric(text[m]))
                IN  [k \in 1..Len(ms) |->
                        [term |-> text[ms[k]], category |-> category, m |-> ms[k]]]])])

general_hits(text) ==
    Concat([c \in 1..Len(GENERAL_PATTERNS) |->
        LET ms == SelectSeq(finditer(GENERAL_PATTERNS[c][2], text),
                            LAMBDA m : ~isnumeric(text[m]))
        IN  [k \in 1..Len(ms) |->
                [term |-> text[ms[k]], category |-> GENERAL_PATTERNS[c][1], m |-> ms[k]]]])

vocabulary_hits(terms_by_category, text) ==
    Concat([c \in 1..Len(terms_by_category) |->
        LET category == terms_by_category[c][1]
            terms == terms_by_category[c][2]
        IN  Concat([t \in 1..Len(terms) |->
                LET ms == finditer({lower(terms[t])}, text_lower(text))
                IN  [k \in 1..Len(ms) |->
                        [term |-> title(terms[t]), category |-> category, m |-> ms[k]]]])])

phrase_hits(text) ==
    Concat([p \in 1..Len(PHRASE_PATTERNS) |->
        LET ms == SelectSeq(finditer(PHRASE_PATTERNS[p], text),
                            LAMBDA m : ~isnumeric(title(text[m])))
        IN  [k \in 1..Len(ms) |->
                [term |-> title(text[ms[k]]), category |-> "key_phrases", m |-> ms[k]]]])

runs_citation_patterns_always(only_terms) == TRUE

(* line 37: whether the statutory and case-law loops are entered *)
runs_citation_patterns(only_terms) == ~only_terms

(* line 39 looks the statutory table up under this name *)
statutory_table_name == "STATUTORY_PATTERns"

(* identify_legal_concepts: [raised, index] *)
identify_legal_concepts(idx, terms_by_category, offset, only_terms, headings, text, raw_page) ==
    LET page_num == adjust_page(raw_page, offset)
    IN  IF runs_citation_patterns(only_terms) /\ statutory_table_name \notin ModuleGlobals
        THEN [raised |-> "NameError", index |-> idx]
        ELSE LET citations == IF runs_citation_patterns(only_terms)
                              THEN pattern_hits(STATUTORY_PATTERNS, text)
                                   \o pattern_hits(CASE_LAW_PATTERNS, text)
                              ELSE <<>>
                 hits == citations \o general_hits(text)
                         \o vocabulary_hits(terms_by_category, text)
             IN  [raised |-> None,
                  index |-> add_hits(idx, hits, page_num, text, headings)]

extract_key_phrases(idx, offset, headings, text, raw_page) ==
    add_hits(idx, phrase_hits(text), adjust_page(raw_page, offset), text, headings)

synonyms ==
    << <<"Corporation", <<"Business Corporation", "Corp">> >>,
       <<"Limited Liability Company", <<"LLC", "Limited Liability Co">> >>,
       <<"Summary Judgment", <<"Summary Judgement">> >>,
       <<"Statute Of Limitations", <<"Limitations Period", "Time Limitation">> >> >>

(* whether build_cross_references links main_term to alt (lines 89 and 91) *)
links_unchecked_alt(idx, main_term, alt) == DictHas(idx, main_term)

links(idx, main_term, alt) == DictHas(idx, main_term) /\ DictHas(idx, alt)

RECURSIVE add_links(_, _, _)
add_links(xrefs, idx, pairs) ==
    IF pairs = <<>> THEN xrefs
    ELSE LET main_term == Head(pairs)[1]
             alt == Head(pairs)[2]
             next == IF links(idx, main_term, alt)
                     THEN DictPut(xrefs, main_term,
                                  (IF DictHas(xrefs, main_term)
                                   THEN DictGet(xrefs, main_term) ELSE {}) \cup {alt})
                     ELSE xrefs
         IN  add_links(next, idx, Tail(pairs))

build_cross_references(xrefs, idx) ==
    add_links(xrefs, idx,
              Concat([g \in 1..Len(synonyms) |->
                        [a \in 1..Len(synonyms[g][2]) |->
                            <<synonyms[g][1], synonyms[g][2][a]>>]]))

-----------------------------------------------------------------------------
(* Python's order of values *)

(* The strings of the model in the order of str.__lt__ *)
StringOrder ==
    <<"\n", " ", "(a)", "Business Corporation", "CPLR 3212", "Consideration", "Corp",
      "Corporation", "NEGLIGENCE", "Negligence", "PART I", "PART II", "Scope",
      "Smith v. Jones", "Venue", "all_references", "business_entities",
      "case_law_references", "consideration", "contracts", "corp", "corporation",
      "criminal_law", "key_phrases", "negligence", "see note", "statutory_references",
      "subdivisions", "torts">>

str_lt(a, b) ==
    (CHOOSE i \in 1..Len(StringOrder) : StringOrder[i] = a)
        < (CHOOSE i \in 1..Len(StringOrder) : StringOrder[i] = b)

(* The first position where two sequences differ, 0 when one is a prefix *)
FirstDifference(a, b) ==
    LET d == {i \in 1..Min(Len(a), Len(b)) : a[i] # b[i]}
    IN  IF d = {} THEN 0 ELSE CHOOSE i \in d : \A j \in d : i <= j

(* A snippet is the string its lexemes spell *)
snippet_lt(a, b) ==
    LET k == FirstDifference(a, b)
    IN  IF k = 0 THEN Len(a) < Len(b) ELSE str_lt(a[k], b[k])

(* list.__lt__ on heading paths: the first unequal pair decides, and a pair
   of None and str cannot be ordered *)
headings_unorderable(a, b) ==
    LET k == FirstDifference(a, b)
    IN  k # 0 /\ (a[k] = None \/ b[k] = None)

headings_lt(a, b) ==
    LET k == FirstDifference(a, b)
    IN  IF k = 0 THEN Len(a) < Len(b) ELSE str_lt(a[k], b[k])

(* tuple.__lt__ on occurrences (page, snippet, headings) *)
entry_unorderable(a, b) ==
    a[1] = b[1] /\ a[2] = b[2] /\ headings_unorderable(a[3], b[3])

entry_lt(a, b) ==
    \/ a[1] < b[1]
    \/ a[1] = b[1] /\ snippet_lt(a[2], b[2])
    \/ a[1] = b[1] /\ a[2] = b[2] /\ headings_lt(a[3], b[3])

(* sorted(entries) raises TypeError when it has to order two occurrences
   that cannot be ordered *)
sorted_raises(entries) ==
    \E i, j \in 1..Len(entries) : entry_unorderable(entries[i], entries[j])

sorted_entries(entries) == SortSeq(entries, entry_lt)

(* sorted(d.items()): the keys are distinct, so the key decides *)
sorted_items(d) == SortSeq(d, LAMBDA a, b : str_lt(a[1], b[1]))

sorted_strings(S) ==
    SortSeq(CHOOSE q \in [1..Cardinality(S) -> S] : {q[i] : i \in 1..Cardinality(S)} = S,
            str_lt)

sorted_ints(S) ==
    SortSeq(CHOOSE q \in [1..Cardinality(S) -> S] : {q[i] : i \in 1..Cardinality(S)} = S,
            LAMBDA a, b : a < b)

-----------------------------------------------------------------------------
(* utils.py: Exporter *)

surviving_buckets_all(data, suppress_categories) ==
    SelectSeq(data, LAMBDA kv : kv[1] # "all_references")

(* lines 96-99: the named buckets that survive, in the order of the term's dict *)
surviving_buckets(data, suppress_categories) ==
    SelectSeq(data, LAMBDA kv : kv[1] # "all_references"
                                /\ ~InSeq(kv[1], suppress_categories))

(* lines 94, 99 and 103: the new all_references of a term *)
new_all_references(kept) == Concat([i \in 1..Len(kept) |-> kept[i][2]])

_filter_index(idx, suppress_categories) ==
    IF suppress_categories = <<>> THEN idx
    ELSE LET filtered ==
                 [i \in 1..Len(idx) |->
                    LET kept == surviving_buckets(idx[i][2], suppress_categories)
                    IN  <<idx[i][1],
                          IF kept # <<>>
                          THEN Append(kept, <<"all_references", new_all_references(kept)>>)
                          ELSE <<>> >>]
         IN  SelectSeq(filtered, LAMBDA kv : kv[2] # <<>>)

never_citation_entry(data) == FALSE

(* lines 83-85: the test that keeps a term out of subject_matter_index *)
is_citation_entry(data) ==
    DictHas(data, "case_law_references") \/ DictHas(data, "statutory_references")

(* Exporter.__init__.  suppress is a list of category names; an absent
   --suppress-categories is the empty list (line 73: None or []). *)
Exporter(idx, xrefs, outline, only_terms, suppress, style) ==
    LET suppress_categories == suppress
        filtered == _filter_index(idx, suppress_categories)
    IN  [built |-> TRUE,
         cross_references |-> xrefs,
         terms_only |-> only_terms,
         suppress_categories |-> suppress_categories,
         index |-> filtered,
         toc |-> outline,
         context_style |-> style,
         case_law_references |->
             IF only_terms THEN <<>>
             ELSE SelectSeq(filtered, LAMBDA kv : DictHas(kv[2], "case_law_references")),
         statutory_references |->
             IF only_terms THEN <<>>
             ELSE SelectSeq(filtered, LAMBDA kv : DictHas(kv[2], "statutory_references")),
         subject_matter_index |->
             IF only_terms THEN filtered
             ELSE SelectSeq(filtered, LAMBDA kv : ~is_citation_entry(kv[2]))]

(* What an export returns or writes: [raised, value] *)
Returned(value) == [done |-> TRUE, raised |-> None, value |-> value]

Raised(error) == [done |-> TRUE, raised |-> error, value |-> <<>>]

NotExported == [done |-> FALSE, raised |-> None, value |-> <<>>]

(* {k: sorted(v['all_references']) for k, v in section.items()} *)
json_references(section) ==
    [i \in 1..Len(section) |->
        <<section[i][1], sorted_entries(DictGet(section[i][2], "all_references"))>>]

json_subject_matter_named_only(section) ==
    [i \in 1..Len(section) |->
        <<section[i][1],
          [c \in 1..Len(surviving_buckets_all(section[i][2], <<>>)) |->
              <<surviving_buckets_all(section[i][2], <<>>)[c][1],
                sorted_entries(surviving_buckets_all(section[i][2], <<>>)[c][2])>>]>>]

(* {k: {cat: sorted(pages) for cat, pages in v.items()} for k, v in section.items()} *)
json_subject_matter(section) ==
    [i \in 1..Len(section) |->
        <<section[i][1],
          [c \in 1..Len(section[i][2]) |->
              <<section[i][2][c][1], sorted_entries(section[i][2][c][2])>>]>>]

json_cross_references(xrefs) ==
    [i \in 1..Len(xrefs) |-> <<xrefs[i][1], sorted_strings(xrefs[i][2])>>]

(* the lists to_json sorts *)
json_sorts(ex) ==
    LET of_all(section) ==
            {DictGet(section[i][2], "all_references") : i \in 1..Len(section)}
        of_buckets(section) ==
            UNION {{section[i][2][c][2] : c \in 1..Len(section[i][2])} :
                    i \in 1..Len(section)}
    IN  IF ex.terms_only THEN of_buckets(ex.subject_matter_index)
        ELSE of_all(ex.case_law_references) \cup of_all(ex.statutory_references)
                \cup of_buckets(ex.subject_matter_index)

to_json(ex) ==
    IF \E entries \in json_sorts(ex) : sorted_raises(entries)
    THEN Raised("TypeError")
    ELSE Returned(
        IF ex.terms_only
        THEN << <<"table_of_contents", ex.toc>>,
                <<"subject_matter_index", json_subject_matter(ex.subject_matter_index)>>,
                <<"_cross_references", json_cross_references(ex.cross_references)>> >>
        ELSE << <<"table_of_contents", ex.toc>>,
                <<"case_law_references", json_references(ex.case_law_references)>>,
                <<"statutory_references", json_references(ex.statutory_references)>>,
                <<"subject_matter_index", json_subject_matter(ex.subject_matter_index)>>,
                <<"_cross_references", json_cross_references(ex.cross_references)>> >>)

(* ' > '.join(filter(None, headings)) *)
join_headings(headings) == SelectSeq(headings, LAMBDA h : h # None)

(* to_csv: the rows written after the header row *)
to_csv(ex) ==
    LET index_source == IF ex.terms_only THEN ex.subject_matter_index ELSE ex.index
        items == sorted_items(index_source)
    IN  Returned(
          Concat([i \in 1..Len(items) |->
            Concat([c \in 1..Len(items[i][2]) |->
              LET cat == items[i][2][c][1]
                  entries == items[i][2][c][2]
              IN  IF entries # <<>> /\ ~InSeq(cat, ex.suppress_categories)
                  THEN [e \in 1..Len(entries) |->
                          <<items[i][1], cat, entries[e][1], entries[e][2],
                            join_headings(entries[e][3])>>]
                  ELSE <<>>])]))

(* _format_entry: the line or block of one term *)
_format_entry(ex, term, entries) ==
    IF ex.context_style = "none" \/ Len(entries) = 1
    THEN Returned(<<term, "pages", sorted_ints({entries[i][1] : i \in 1..Len(entries)})>>)
    ELSE IF sorted_raises(entries) THEN Raised("TypeError")
    ELSE LET sorted == sorted_entries(entries)
         IN  IF ex.context_style = "snippet"
             THEN Returned(<<term, "snippet",
                             [i \in 1..Len(sorted) |-> <<sorted[i][1], sorted[i][2]>>]>>)
             ELSE Returned(<<term, "headings",
                             [i \in 1..Len(sorted) |->
                                 <<sorted[i][1], join_headings(sorted[i][3])>>]>>)

(* The outline lines of to_text (lines 130-140).  A level-3 value is
   <<"int", page>> or <<"dict", {level-4: page}>>. *)
toc_lines(outline) ==
    LET l1s == sorted_items(outline)
    IN  Concat([a \in 1..Len(l1s) |->
          <<<<1, l1s[a][1]>>>> \o
          LET l2s == sorted_items(l1s[a][2])
          IN  Concat([b \in 1..Len(l2s) |->
                <<<<2, l2s[b][1]>>>> \o
                LET l3s == sorted_items(l2s[b][2])
                IN  Concat([c \in 1..Len(l3s) |->
                      IF l3s[c][2][1] = "dict"
                      THEN <<<<3, l3s[c][1], l3s[c][2][2][1][2]>>>> \o
                           [d \in 1..Len(sorted_items(l3s[c][2][2])) |->
                               <<4, sorted_items(l3s[c][2][2])[d][1],
                                    sorted_items(l3s[c][2][2])[d][2]>>]
                      ELSE <<<<3, l3s[c][1], l3s[c][2][2]>>>>])])])

(* for term, data in sorted(section.items()): _format_entry(term, data['all_references']) *)
section_entries(ex, section) ==
    LET items == sorted_items(section)
    IN  [i \in 1..Len(items) |->
            _format_entry(ex, items[i][1], DictGet(items[i][2], "all_references"))]

(* lines 165-174: the terms of subject_matter_index grouped by category *)
subject_entries(ex) ==
    LET items == sorted_items(ex.subject_matter_index)
        listed(data, cat) ==
            cat # "all_references" /\ ~InSeq(cat, ex.suppress_categories) /\ DictHas(data, cat)
        cats == sorted_strings({cat \in UNION {Buckets(items[i][2]) : i \in 1..Len(items)} :
                                 \E i \in 1..Len(items) : listed(items[i][2], cat)})
    IN  Concat([c \in 1..Len(cats) |->
            <<Returned(<<"--", cats[c]>>)>> \o
            section_entries(ex, SelectSeq(items, LAMBDA kv : listed(kv[2], cats[c])))])

to_text(ex) ==
    LET cited(name, section) ==
            IF ~ex.terms_only /\ ~InSeq(name, ex.suppress_categories)
            THEN <<Returned(<<"==", name>>)>> \o section_entries(ex, section)
            ELSE <<>>
        blocks ==
            cited("case_law_references", ex.case_law_references)
            \o cited("statutory_references", ex.statutory_references)
            \o <<Returned(<<"==", "INDEX BY SUBJECT">>)>> \o subject_entries(ex)
            \o <<Returned(<<"==", "ALPHABETICAL INDEX">>)>>
            \o section_entries(ex, IF ex.terms_only THEN ex.subject_matter_index
                                   ELSE ex.index)
    IN  IF \E i \in 1..Len(blocks) : blocks[i].raised # None
        THEN Raised("TypeError")
        ELSE Returned(<<toc_lines(ex.toc)>> \o [i \in 1..Len(blocks) |-> blocks[i].value])

-----------------------------------------------------------------------------
(* The indexer's operations as actions *)

NoExporter == [built |-> FALSE]

(* The indexer and the exporter used as a library, outside a run of main *)
NoRun == [pc |-> "library"]

Call(op, text, raw_page, raised) ==
    [op |-> op, text |-> text, page_num |-> raw_page, raised |-> raised]

Init ==
    /\ legal_terms \in LegalTermsChoices
    /\ page_offset \in PageOffsets
    /\ terms_only \in BOOLEAN
    /\ index = <<>>
    /\ cross_references = <<>>
    /\ current_headings = NoHeadings
    /\ last_call = Call("__init__", <<>>, 0, None)
    /\ ncalls = 0
    /\ toc = <<>>
    /\ exporter = NoExporter
    /\ outputs = [f \in {"text", "json", "csv"} |-> NotExported]
    /\ env = NoRun
    /\ run = NoRun
    /\ page_content = <<>>

SetCurrentHeadings ==
    \E headings \in HeadingPaths :
        /\ current_headings' = headings
        /\ last_call' = Call("set_current_headings", <<>>, 0, None)
        /\ UNCHANGED <<env, run, page_content, legal_terms, page_offset, terms_only, index, cross_references,
                       ncalls, toc, exporter, outputs>>

IdentifyLegalConcepts ==
    \E text \in PageTexts, raw_page \in RawPages :
        LET r == identify_legal_concepts(index, legal_terms, page_offset, terms_only,
                                         current_headings, text, raw_page)
        IN  /\ ncalls < MaxCalls
            /\ ncalls' = ncalls + 1
            /\ index' = r.index
            /\ last_call' = Call("identify_legal_concepts", text, raw_page, r.raised)
            /\ UNCHANGED <<env, run, page_content, legal_terms, page_offset, terms_only, cross_references,
                           current_headings, toc, exporter, outputs>>

ExtractKeyPhrases ==
    \E text \in PageTexts, raw_page \in RawPages :
        /\ ncalls < MaxCalls
        /\ ncalls' = ncalls + 1
        /\ index' = extract_key_phrases(index, page_offset, current_headings, text, raw_page)
        /\ last_call' = Call("extract_key_phrases", text, raw_page, None)
        /\ UNCHANGED <<env, run, page_content, legal_terms, page_offset, terms_only, cross_references,
                       current_headings, toc, exporter, outputs>>

BuildCrossReferences ==
    /\ cross_references' = build_cross_references(cross_references, index)
    /\ last_call' = Call("build_cross_references", <<>>, 0, None)
    /\ UNCHANGED <<env, run, page_content, legal_terms, page_offset, terms_only, index, current_headings,
                   ncalls, toc, exporter, outputs>>

Next ==
    \/ SetCurrentHeadings
    \/ IdentifyLegalConcepts
    \/ ExtractKeyPhrases
    \/ BuildCrossReferences

Spec == Init /\ [][Next]_vars

-----------------------------------------------------------------------------
(* The exporter's operations as actions.  The index is built by calls of
   _add_to_index; one page text per term, the term alone on its page. *)

ExportTerms == {"Corporation", "Corp"}

ExportCategories == {"business_entities", "subdivisions", "case_law_references"}

(* terms_only, suppress_categories, context_style of an Exporter *)
ExporterParams ==
    { <<FALSE, <<>>, "none">>,
      <<FALSE, <<"subdivisions">>, "snippet">>,
      <<FALSE, <<"business_entities", "contracts">>, "headings">>,
      <<TRUE, <<>>, "headings">>,
      <<TRUE, <<"subdivisions">>, "none">>,
      <<TRUE, <<"business_entities", "contracts">>, "snippet">> }

(* page and heading path of the occurrences added *)
ExportOccurrences ==
    { <<1, NoHeadings>>, <<1, <<"PART I", "Scope", "Venue", None, None>> >>,
      <<2, NoHeadings>> }

Formats == {"text", "json", "csv"}

SampleOutline == << <<"PART II", <<>> >>, <<"PART I", <<>> >> >>

after_export_sorted_in_place(ex) ==
    LET sort_buckets(section) ==
            [i \in 1..Len(section) |->
                <<section[i][1],
                  [c \in 1..Len(section[i][2]) |->
                      <<section[i][2][c][1],
                        IF sorted_raises(section[i][2][c][2]) THEN section[i][2][c][2]
                        ELSE sorted_entries(section[i][2][c][2])>>]>>]
    IN  [ex EXCEPT !.index = sort_buckets(@),
                   !.case_law_references = sort_buckets(@),
                   !.statutory_references = sort_buckets(@),
                   !.subject_matter_index = sort_buckets(@)]

(* data[key] on a defaultdict(list): a missing key is created with an empty
   list, a present key leaves the dict as it is *)
getitem_default(data, key) ==
    IF DictHas(data, key) THEN data ELSE Append(data, <<key, <<>> >>)

(* data['all_references'] read for every term of a section *)
touch_all_references(section) ==
    [i \in 1..Len(section) |->
        <<section[i][1], getitem_default(section[i][2], "all_references")>>]

(* What an export leaves of the Exporter: to_text, to_json and to_csv build
   new lists with sorted() and write nothing back; the only access that can
   write is the read of data['all_references'] *)
after_export(ex) ==
    [ex EXCEPT !.index = touch_all_references(@),
               !.case_law_references = touch_all_references(@),
               !.statutory_references = touch_all_references(@),
               !.subject_matter_index = touch_all_references(@)]

(* _filter_index returns the very dict it was given when nothing is
   suppressed, and a new dict of new lists otherwise *)
shares_index(ex) == ex.suppress_categories = <<>>

index_filtered_in_place(idx, ex) == ex.index

(* The indexer's index once the Exporter ex, built from idx, has acted *)
index_seen_by_indexer(idx, ex) == IF shares_index(ex) THEN ex.index ELSE idx

InitExport ==
    /\ legal_terms = <<>>
    /\ page_offset = 0
    /\ terms_only = FALSE
    /\ index = <<>>
    /\ cross_references = <<>>
    /\ current_headings = NoHeadings
    /\ last_call = Call("__init__", <<>>, 0, None)
    /\ ncalls = 0
    /\ toc = SampleOutline
    /\ exporter = NoExporter
    /\ outputs = [f \in Formats |-> NotExported]
    /\ env = NoRun
    /\ run = NoRun
    /\ page_content = <<>>

AddToIndex ==
    \E term \in ExportTerms, category \in ExportCategories, occ \in ExportOccurrences :
        /\ ~exporter.built
        /\ ncalls < MaxAdds
        /\ ncalls' = ncalls + 1
        /\ index' = _add_to_index(index, term, category, occ[1], 1, <<term>>, occ[2])
        /\ last_call' = Call("_add_to_index", <<>>, 0, None)
        /\ UNCHANGED <<env, run, page_content, legal_terms, page_offset, terms_only, cross_references,
                       current_headings, toc, exporter, outputs>>

LinkSynonyms ==
    /\ ~exporter.built
    /\ cross_references' = build_cross_references(cross_references, index)
    /\ last_call' = Call("build_cross_references", <<>>, 0, None)
    /\ UNCHANGED <<env, run, page_content, legal_terms, page_offset, terms_only, index, current_headings,
                   ncalls, toc, exporter, outputs>>

NewExporter ==
    \E params \in ExporterParams :
        /\ ~exporter.built
        /\ exporter' = Exporter(index, cross_references, toc,
                                params[1], params[2], params[3])
        /\ index' = index_seen_by_indexer(index, exporter')
        /\ outputs' = [f \in Formats |-> NotExported]
        /\ last_call' = Call("Exporter", <<>>, 0, None)
        /\ UNCHANGED <<env, run, page_content, legal_terms, page_offset, terms_only, cross_references,
                       current_headings, ncalls, toc>>

Export(format, result) ==
    /\ exporter.built
    /\ outputs' = [outputs EXCEPT ![format] = result]
    /\ exporter' = after_export(exporter)
    /\ index' = index_seen_by_indexer(index, exporter')
    /\ UNCHANGED <<env, run, page_content, legal_terms, page_offset, terms_only, cross_references,
                   current_headings, last_call, ncalls, toc>>

ToText == Export("text", to_text(exporter))

ToJson == Export("json", to_json(exporter))

ToCsv == Export("csv", to_csv(exporter))

NextExport ==
    \/ AddToIndex
    \/ LinkSynonyms
    \/ NewExporter
    \/ ToText
    \/ ToJson
    \/ ToCsv

SpecExport == InitExport /\ [][NextExport]_vars

-----------------------------------------------------------------------------
(* Properties of the indexer *)

NoDuplicates(bucket) ==
    \A i, j \in 1..Len(bucket) : bucket[i] = bucket[j] => i = j

IndexingCalls == {"identify_legal_concepts", "extract_key_phrases"}

(* The vocabulary terms, with their category, that occur in text *)
VocabularyIn(text) ==
    UNION {{<<legal_terms[c][1], legal_terms[c][2][t]>> :
                t \in {u \in 1..Len(legal_terms[c][2]) :
                         \E i \in 1..Len(text) : lower(text[i]) = lower(legal_terms[c][2][u])}} :
            c \in 1..Len(legal_terms)}

HasOccurrenceAt(term, category, page) ==
    /\ DictHas(index, term)
    /\ DictHas(DictGet(index, term), category)
    /\ \E e \in Entries(DictGet(DictGet(index, term), category)) : e[1] = page

(* C1: in every reachable state of the indexer, for every term, all_references
   holds exactly the occurrences of the term's other buckets, and no bucket
   holds the same (page, snippet, heading path) occurrence twice. *)
C1_AllReferencesIsUnion ==
    \A i \in 1..Len(index) :
        LET data == index[i][2]
        IN  /\ "all_references" \in Buckets(data)
            /\ Entries(DictGet(data, "all_references"))
                   = UNION {Entries(DictGet(data, c)) : c \in Buckets(data) \ {"all_references"}}
            /\ \A c \in Buckets(data) : NoDuplicates(DictGet(data, c))

(* A page with the same term twice, listed in two categories, was indexed on
   two calls: one occurrence in each bucket. *)
C1_Witness ==
    /\ ncalls = 2
    /\ last_call.op = "identify_legal_concepts"
    /\ last_call.text = <<"negligence", "\n", "negligence">>
    /\ DictHas(index, "Negligence")
    /\ {"torts", "criminal_law"} \subseteq Buckets(DictGet(index, "Negligence"))
    /\ Len(DictGet(DictGet(index, "Negligence"), "all_references")) = 1
    /\ Len(DictGet(DictGet(index, "Negligence"), "torts")) = 1

(* C3: after identify_legal_concepts(text, P), every vocabulary term that
   occurs in text has, under the title-cased term, an occurrence at page
   P - offset in each category that lists it and in all_references, whatever
   the terms-only flag is. *)
C3_VocabularyTermsIndexed ==
    last_call.op = "identify_legal_concepts" =>
        \A v \in VocabularyIn(last_call.text) :
            /\ HasOccurrenceAt(title(v[2]), v[1], last_call.page_num - page_offset)
            /\ HasOccurrenceAt(title(v[2]), "all_references", last_call.page_num - page_offset)

(* The citations (statutory and case-law matches) of text, with their category *)
CitationsIn(text) ==
    {<<h.category, h.term>> :
        h \in Entries(pattern_hits(STATUTORY_PATTERNS, text)
                      \o pattern_hits(CASE_LAW_PATTERNS, text))}

(* C4: with terms-only off, after identify_legal_concepts(text, P) every
   statutory and case-law match has an occurrence at page P - offset under the
   matched text, in the pattern's category and in all_references. *)
C4_CitationsIndexed ==
    (last_call.op = "identify_legal_concepts" /\ ~terms_only) =>
        \A c \in CitationsIn(last_call.text) :
            /\ HasOccurrenceAt(c[2], c[1], last_call.page_num - page_offset)
            /\ HasOccurrenceAt(c[2], "all_references", last_call.page_num - page_offset)

(* The occurrences a step adds to bucket category of term *)
Recorded(old, new, term, category) ==
    Entries(DefaultGet(DefaultGet(new, term), category))
        \ Entries(DefaultGet(DefaultGet(old, term), category))

(* C6: every occurrence that identify_legal_concepts or extract_key_phrases
   records for raw page N has page N - page_offset exactly, also when that is
   zero or negative. *)
C6_PageIsRawMinusOffset ==
    [][\A i \in 1..Len(index') :
          \A c \in Buckets(index'[i][2]) :
             \A e \in Recorded(index, index', index'[i][1], c) :
                /\ last_call'.op \in IndexingCalls
                /\ e[1] = last_call'.page_num - page_offset]_vars

(* An occurrence of raw page 1 with offset 2 is stored at page -1. *)
C6_Witness ==
    /\ page_offset = 2
    /\ last_call.op \in IndexingCalls
    /\ last_call.page_num = 1
    /\ \E i \in 1..Len(index) :
          \E e \in Entries(DictGet(index[i][2], "all_references")) : e[1] = -1

SynonymPairs ==
    UNION {{<<synonyms[g][1], synonyms[g][2][a]>> : a \in 1..Len(synonyms[g][2])} :
            g \in 1..Len(synonyms)}

Linked(main_term, alt) ==
    DictHas(cross_references, main_term) /\ alt \in DictGet(cross_references, main_term)

(* C7: right after build_cross_references the canonical term of a synonym
   group is linked to an alternate exactly when both are index keys, and no
   edge ever starts or ends at a term that is not an index key. *)
C7_CrossReferencesObserved ==
    /\ last_call.op = "build_cross_references" =>
          \A p \in SynonymPairs :
             Linked(p[1], p[2]) <=> (DictHas(index, p[1]) /\ DictHas(index, p[2]))
    /\ \A i \in 1..Len(cross_references) :
          /\ DictHas(index, cross_references[i][1])
          /\ \A alt \in cross_references[i][2] : DictHas(index, alt)

(* Corporation and Corp are linked, while another synonym group whose terms
   were not observed is not. *)
C7_Witness ==
    /\ last_call.op = "build_cross_references"
    /\ Linked("Corporation", "Corp")
    /\ ~Linked("Corporation", "Business Corporation")
    /\ DictHas(index, "Corporation")

(* The phrases (fixed-phrase matches, title-cased) of text *)
PhrasesIn(text) == {h.term : h \in Entries(phrase_hits(text))}

AllCitations == UNION {CitationsIn(text) : text \in PageTexts}

(* C5: in terms-only mode no index entry has a statutory_references or
   case_law_references bucket, no export section of a terms-only Exporter
   lists a citation, and the vocabulary terms and fixed phrases of a page
   are still indexed. *)
C5_TermsOnlyIndexesNoCitations ==
    terms_only =>
        /\ \A i \in 1..Len(index) : ~is_citation_entry(index[i][2])
        /\ \A params \in {q \in ExporterParams : q[1]} :
              LET ex == Exporter(index, cross_references, toc,
                                 params[1], params[2], params[3])
              IN  /\ ex.case_law_references = <<>>
                  /\ ex.statutory_references = <<>>
                  /\ \A c \in AllCitations :
                        ~DictHas(ex.subject_matter_index, c[2]) /\ ~DictHas(ex.index, c[2])
                  /\ to_json(ex).raised = None =>
                        Buckets(to_json(ex).value) =
                            {"table_of_contents", "subject_matter_index", "_cross_references"}
        /\ last_call.op = "identify_legal_concepts" =>
              \A v \in VocabularyIn(last_call.text) :
                  HasOccurrenceAt(title(v[2]), v[1], last_call.page_num - page_offset)
        /\ last_call.op = "extract_key_phrases" =>
              \A ph \in PhrasesIn(last_call.text) :
                  HasOccurrenceAt(ph, "key_phrases", last_call.page_num - page_offset)

(* A page with a vocabulary term and a case citation was indexed in
   terms-only mode: the term is a key, the citation is not. *)
C5_Witness ==
    /\ terms_only
    /\ last_call.op = "identify_legal_concepts"
    /\ last_call.text = <<"NEGLIGENCE", " ", "Smith v. Jones">>
    /\ DictHas(index, "Negligence")
    /\ ~DictHas(index, "Smith v. Jones")
    /\ DictHas(index, "Consideration")

-----------------------------------------------------------------------------
(* Properties of the exporter *)

NamedBuckets(data) == Buckets(data) \ {"all_references"}

Suppressed == {exporter.suppress_categories[i] : i \in 1..Len(exporter.suppress_categories)}

(* C2: after a non-empty suppress_categories filter every surviving term's
   all_references is the deduplicated union of its surviving buckets: an
   occurrence of two surviving categories is in all_references once. *)
C2_FilteredAllReferencesDeduplicated ==
    (exporter.built /\ exporter.suppress_categories # <<>>) =>
        \A i \in 1..Len(exporter.index) :
            LET data == exporter.index[i][2]
            IN  /\ NoDuplicates(DictGet(data, "all_references"))
                /\ Entries(DictGet(data, "all_references"))
                       = UNION {Entries(DictGet(data, c)) : c \in NamedBuckets(data)}

(* C8: a term is in the filtered index exactly when it has a named category
   that is not suppressed; no surviving term has a suppressed bucket; every
   surviving named bucket holds the occurrences it held before, in order. *)
C8_FilterKeepsUnsuppressedBuckets ==
    exporter.built =>
        /\ \A i \in 1..Len(index) :
              DictHas(exporter.index, index[i][1])
                  <=> NamedBuckets(index[i][2]) \ Suppressed # {}
        /\ \A i \in 1..Len(exporter.index) :
              LET term == exporter.index[i][1]
                  data == exporter.index[i][2]
              IN  /\ DictHas(index, term)
                  /\ Buckets(data) \cap Suppressed = {}
                  /\ NamedBuckets(data) = NamedBuckets(DictGet(index, term)) \ Suppressed
                  /\ \A c \in NamedBuckets(data) :
                        DictGet(data, c) = DictGet(DictGet(index, term), c)

(* Suppressing subdivisions dropped Corp, whose only category it was, and
   kept Corporation with its business_entities bucket. *)
C8_Witness ==
    /\ exporter.built
    /\ exporter.suppress_categories = <<"subdivisions">>
    /\ DictHas(index, "Corp")
    /\ ~DictHas(exporter.index, "Corp")
    /\ DictHas(exporter.index, "Corporation")
    /\ Buckets(DictGet(exporter.index, "Corporation")) = {"business_entities", "all_references"}

JsonSubjectMatter == DictGet(outputs["json"].value, "subject_matter_index")

(* The terms of section appear in the JSON subject_matter_index with each of
   their buckets and the same occurrences, and nothing else does *)
JsonSubjectMatterIs(section) ==
    /\ Buckets(JsonSubjectMatter) = Buckets(section)
    /\ \A i \in 1..Len(section) :
          LET term == section[i][1]
              listed == DictGet(JsonSubjectMatter, term)
          IN  /\ Buckets(listed) = Buckets(section[i][2])
              /\ \A c \in Buckets(listed) :
                    /\ Entries(DictGet(listed, c)) = Entries(DictGet(section[i][2], c))
                    /\ Len(DictGet(listed, c)) = Len(DictGet(section[i][2], c))

(* C9 as stated: the subject_matter_index of the JSON export holds every term
   of the filtered index with each of its categories and the same pages, in
   terms-only and in default mode. *)
C9_JsonSubjectMatterIsFilteredIndex ==
    (outputs["json"].done /\ outputs["json"].raised = None) =>
        JsonSubjectMatterIs(exporter.index)

(* C9 amended: in terms-only mode the subject_matter_index of a JSON export
   holds every term of the filtered index; in default mode it holds the terms
   of the filtered index that have neither a case_law_references nor a
   statutory_references bucket; each with all its buckets and occurrences. *)
C9_JsonSubjectMatterIsSubjectSection ==
    (outputs["json"].done /\ outputs["json"].raised = None) =>
        JsonSubjectMatterIs(
            IF exporter.terms_only THEN exporter.index
            ELSE SelectSeq(exporter.index,
                           LAMBDA kv : /\ "case_law_references" \notin Buckets(kv[2])
                                       /\ "statutory_references" \notin Buckets(kv[2])))

(* A default-mode JSON export of an index with a case-law term and a
   subject-matter term. *)
C9_Witness ==
    /\ outputs["json"].done
    /\ outputs["json"].raised = None
    /\ ~exporter.terms_only
    /\ exporter.case_law_references # <<>>
    /\ exporter.subject_matter_index # <<>>
    /\ JsonSubjectMatter # <<>>

(* C10: an export in a format that was exported before, with the same
   Exporter and any other exports in between, produces the same output. *)
C10_ExportRepeatable ==
    [][\A f \in Formats :
          (exporter.built /\ outputs[f].done /\ outputs'[f].done)
              => outputs'[f] = outputs[f]]_vars

(* Every format was exported from an index with a bucket that is not in
   sorted order. *)
C10_Witness ==
    /\ \A f \in Formats : outputs[f].done /\ outputs[f].raised = None
    /\ \E i \in 1..Len(exporter.index) :
          \E c \in 1..Len(exporter.index[i][2]) :
             LET bucket == exporter.index[i][2][c][2]
             IN  Len(bucket) = 2 /\ entry_lt(bucket[2], bucket[1])

(* C11: building an Exporter and exporting, with any suppress list, mode and
   context style, leaves the indexer's index, cross-reference map and outline
   as they were: same keys, same buckets, same occurrences in the same order. *)
C11_ExporterLeavesIndexerUnchanged ==
    [][exporter'.built =>
          /\ index' = index
          /\ cross_references' = cross_references
          /\ toc' = toc]_vars

(* A suppressing Exporter whose filtered index differs from the indexer's
   index has exported in every format. *)
C11_Witness ==
    /\ exporter.built
    /\ exporter.suppress_categories # <<>>
    /\ index # <<>>
    /\ exporter.index # index
    /\ cross_references # <<>>
    /\ \A f \in Formats : outputs[f].done

(* The terms of an emitted section, in the order they are emitted *)
EmittedTerms(section) == [i \in 1..Len(section) |-> section[i][1]]

AscendingTerms(terms) ==
    \A i \in 1..(Len(terms) - 1) : terms[i] = terms[i + 1] \/ str_lt(terms[i], terms[i + 1])

(* C12: every output emits terms in ascending order of term text and, within
   a term, occurrences in ascending order of (page, snippet, heading path):
   the keys of the JSON sections and the rows of the CSV file. *)
C12_TermsAndOccurrencesSorted ==
    /\ (outputs["json"].done /\ outputs["json"].raised = None) =>
          \A k \in 1..Len(outputs["json"].value) :
              outputs["json"].value[k][1] # "table_of_contents"
                  => AscendingTerms(EmittedTerms(outputs["json"].value[k][2]))
    /\ (outputs["csv"].done /\ outputs["csv"].raised = None) =>
          LET rows == outputs["csv"].value
          IN  /\ AscendingTerms([i \in 1..Len(rows) |-> rows[i][1]])
              /\ \A i \in 1..(Len(rows) - 1) :
                    (rows[i][1] = rows[i + 1][1] /\ rows[i][2] = rows[i + 1][2])
                        => \/ rows[i][3] < rows[i + 1][3]
                           \/ /\ rows[i][3] = rows[i + 1][3]
                              /\ ~snippet_lt(rows[i + 1][4], rows[i][4])

-----------------------------------------------------------------------------
(* The text extractor (extractor.py) *)

(* the largest number of pages of a document *)
MaxPages == 2

(* What a call into a backend gives: a str, None, or an exception *)
Str(text) == <<"str", text>>

Raises == <<"raises", <<>> >>

ReturnsNone == <<"None", <<>> >>

(* doc[i].get_text(): a text with words, a blank text, an empty text, or an
   exception *)
GetTextOutcomes == {Str(<<"negligence">>), Str(<<" ">>), Str(<<>>), Raises}

(* doc[i].get_pixmap() followed by pytesseract: the recognised text, an
   exception inside _ocr_page, or an exception of get_pixmap *)
OcrFails == <<"ocr_fails", <<>> >>

OcrOutcomes == {Str(<<"corp">>), OcrFails, Raises}

(* page.extract_text() of PyPDF2: a text, an empty text, None or an exception *)
Pypdf2Outcomes == {Str(<<"corporation">>), Str(<<>>), ReturnsNone, Raises}

(* A page as PyMuPDF sees it; recognition is only tried on a blank page *)
FitzPages ==
    {[get_text |-> t, ocr |-> OcrFails] : t \in {Str(<<"negligence">>), Raises}}
        \cup {[get_text |-> t, ocr |-> o] : t \in {Str(<<" ">>), Str(<<>>)}, o \in OcrOutcomes}

SeqsUpTo(S, n) == UNION {[1..k -> S] : k \in 0..n}

(* fitz.open, doc.page_count and doc.close can each fail for the whole
   document; PyPDF2 can fail to open the file or to list its pages *)
PrimaryOutcomes == {"ok", "open_fails", "page_count_fails", "close_fails"}

FallbackOutcomes == {"ok", "open_fails", "read_fails"}

Document(exists, primary, pages, fallback, fallback_pages, spans) ==
    [exists |-> exists, primary |-> primary, pages |-> pages,
     fallback |-> fallback, fallback_pages |-> fallback_pages, spans |-> spans]

(* The documents handed to extract_text_from_pdf: a missing file, files
   that PyMuPDF reads, and files that only PyPDF2 reads or nobody reads *)
Documents ==
    {Document(FALSE, "open_fails", <<>>, "open_fails", <<>>, <<>>)}
        \cup {Document(TRUE, "ok", pages, "ok", <<>>, <<>>) :
                pages \in SeqsUpTo(FitzPages, MaxPages)}
        \cup {Document(TRUE, primary, <<>>, "ok", fallback_pages, <<>>) :
                primary \in PrimaryOutcomes \ {"ok"},
                fallback_pages \in SeqsUpTo(Pypdf2Outcomes, MaxPages)}
        \cup {Document(TRUE, primary, <<>>, fallback, <<>>, <<>>) :
                primary \in PrimaryOutcomes \ {"ok"},
                fallback \in FallbackOutcomes \ {"ok"}}

(* _ocr_page: the recognised text, "" when recognition raises *)
_ocr_page(page) == IF page.ocr = OcrFails THEN <<>> ELSE page.ocr[2]

(* lines 27-36: the text stored for page i of a document PyMuPDF opened *)
fitz_page_text(page) ==
    IF page.get_text = Raises THEN <<>>
    ELSE IF strip(page.get_text[2]) # <<>> THEN page.get_text[2]
    ELSE IF page.ocr = Raises THEN <<>>
    ELSE _ocr_page(page)

(* lines 50-54: page.extract_text() or "", and "" when it raises *)
pypdf2_page_text(outcome) ==
    IF outcome = Raises \/ outcome = ReturnsNone THEN <<>> ELSE outcome[2]

_extract_with_pypdf2(doc) ==
    IF doc.fallback # "ok" THEN <<>>
    ELSE [i \in 1..Len(doc.fallback_pages) |->
             <<i, pypdf2_page_text(doc.fallback_pages[i])>>]

extract_text_from_pdf_stops_at_failure(doc) ==
    LET failed == {i \in 1..Len(doc.pages) : doc.pages[i].get_text = Raises}
        last == IF failed = {} THEN Len(doc.pages)
                ELSE (CHOOSE i \in failed : \A j \in failed : i <= j) - 1
    IN  IF ~doc.exists THEN [raised |-> "FileNotFoundError", value |-> <<>>]
        ELSE IF doc.primary # "ok" THEN [raised |-> None, value |-> _extract_with_pypdf2(doc)]
        ELSE [raised |-> None,
              value |-> [i \in 1..last |-> <<i, fitz_page_text(doc.pages[i])>>]]

extract_text_from_pdf_no_fallback(doc) ==
    IF ~doc.exists THEN [raised |-> "FileNotFoundError", value |-> <<>>]
    ELSE IF doc.primary # "ok" THEN [raised |-> "RuntimeError", value |-> <<>>]
    ELSE [raised |-> None,
          value |-> [i \in 1..Len(doc.pages) |-> <<i, fitz_page_text(doc.pages[i])>>]]

(* extract_text_from_pdf: the exception it raises, if any, and the dict it
   returns, in insertion order *)
extract_text_from_pdf(doc) ==
    IF ~doc.exists THEN [raised |-> "FileNotFoundError", value |-> <<>>]
    ELSE IF doc.primary # "ok" THEN [raised |-> None, value |-> _extract_with_pypdf2(doc)]
    ELSE [raised |-> None,
          value |-> [i \in 1..Len(doc.pages) |-> <<i, fitz_page_text(doc.pages[i])>>]]

InitExtract ==
    /\ legal_terms = <<>>
    /\ page_offset = 0
    /\ terms_only = FALSE
    /\ index = <<>>
    /\ cross_references = <<>>
    /\ current_headings = NoHeadings
    /\ last_call = Call("__init__", <<>>, 0, None)
    /\ ncalls = 0
    /\ toc = <<>>
    /\ exporter = NoExporter
    /\ outputs = [f \in Formats |-> NotExported]
    /\ env \in {[document |-> d] : d \in Documents}
    /\ run = [pc |-> "extract_text_from_pdf", raised |-> None]
    /\ page_content = <<>>

ExtractTextFromPdf ==
    /\ run.pc = "extract_text_from_pdf"
    /\ page_content' = extract_text_from_pdf(env.document).value
    /\ run' = [pc |-> "returned", raised |-> extract_text_from_pdf(env.document).raised]
    /\ UNCHANGED <<legal_terms, page_offset, terms_only, index, cross_references,
                   current_headings, last_call, ncalls, toc, exporter, outputs, env>>

NextExtract == ExtractTextFromPdf

SpecExtract == InitExtract /\ [][NextExtract]_vars

Extracted == run.pc = "returned" /\ run.raised = None

(* C17: for a document of N pages that a backend reads, the mapping has the
   keys 1..N in ascending order, each with the text extracted from that
   page; a page whose extraction fails has the empty string and the other
   pages keep their own text. *)
C17_PagesKeyedInOrder ==
    (Extracted /\ env.document.primary = "ok") =>
        LET pages == env.document.pages
        IN  /\ [i \in 1..Len(page_content) |-> page_content[i][1]]
                   = [i \in 1..Len(pages) |-> i]
            /\ \A i \in 1..Len(pages) :
                  LET text == DictGet(page_content, i)
                      got == pages[i].get_text
                      blank == got \in {Str(<<" ">>), Str(<<>>)}
                  IN  /\ got = Raises => text = <<>>
                      /\ got = Str(<<"negligence">>) => text = <<"negligence">>
                      /\ (blank /\ pages[i].ocr = Str(<<"corp">>)) => text = <<"corp">>
                      /\ (blank /\ pages[i].ocr \in {OcrFails, Raises}) => text = <<>>

(* The first of two pages failed and the second kept its text. *)
C17_Witness ==
    /\ Extracted
    /\ env.document.primary = "ok"
    /\ Len(env.document.pages) = 2
    /\ env.document.pages[1].get_text = Raises
    /\ page_content = << <<1, <<>> >>, <<2, <<"negligence">> >> >>

(* C18: when PyMuPDF fails to open or read the document, the call returns
   what PyPDF2 extracts, keyed 1..N, and raises nothing. *)
C18_FallbackOnPrimaryFailure ==
    (run.pc = "returned" /\ env.document.exists /\ env.document.primary # "ok") =>
        /\ run.raised = None
        /\ env.document.fallback = "ok" =>
              /\ Len(page_content) = Len(env.document.fallback_pages)
              /\ \A i \in 1..Len(page_content) :
                    /\ page_content[i][1] = i
                    /\ page_content[i][2] =
                          (IF env.document.fallback_pages[i][1] = "str"
                           THEN env.document.fallback_pages[i][2] ELSE <<>>)

(* PyMuPDF could not open the file and PyPDF2 gave the text of both pages. *)
C18_Witness ==
    /\ run.pc = "returned"
    /\ run.raised = None
    /\ env.document.primary = "open_fails"
    /\ env.document.fallback = "ok"
    /\ page_content = << <<1, <<"corporation">> >>, <<2, <<"corporation">> >> >>

-----------------------------------------------------------------------------
(* The outline builder (utils.py, get_table_of_contents) *)

(* the largest number of spans of a document whose outline is built *)
MaxSpans == 5

(* the spans of a document lie two to a page *)
SpansPerPage == 2

Span(bold, text) == [bold |-> bold, text |-> text]

(* span["text"].strip() *)
span_strip(text) == IF text = " " THEN "" ELSE text

(* re.sub(r'<section sign>\s*\d+(\.\d+)?', '', text).strip(); the section
   sign is written "Sec." in the strings of the model *)
clean_heading(text) ==
    IF text = "Sec. 3 Venue" THEN "Venue"
    ELSE IF text = "Sec. 12.3" THEN ""
    ELSE text

(* all(c.isupper() or not c.isalpha() for c in text) *)
all_upper_or_not_alpha(text) == text \in {"PART I", "PART II", "12", ""}

(* str.istitle *)
istitle(text) == text \in {"Scope", "Venue"}

always_truthy(heading) == TRUE

(* the truth value of a heading: None and "" are false *)
truthy(heading) == heading # None /\ heading # ""

(* span["font"].lower().find("bold") > -1 or span["font"].lower().find("heavy") > -1 *)
bold_or_heavy(span) == span.bold

bold_all_caps(span, text) == bold_or_heavy(span) /\ all_upper_or_not_alpha(text)

(* the test of the if at line 35, which guards the level-1 block and which
   every elif below it is an alternative to *)
level1_test(span, text) == bold_or_heavy(span)

(* toc[h0][h1] = value and toc[h0][h1][h2] = value *)
put_level2(outline, h0, h1, value) ==
    DictPut(outline, h0, DictPut(DictGet(outline, h0), h1, value))

put_level3(outline, h0, h1, h2, value) ==
    put_level2(outline, h0, h1, DictPut(DictGet(DictGet(outline, h0), h1), h2, value))

(* the branch of the if/elif chain of lines 35-66 a span takes: 1 to 4 for
   the block that sets that level, 0 when the block's inner test fails *)
span_level(span, text) ==
    IF level1_test(span, text) THEN (IF all_upper_or_not_alpha(text) THEN 1 ELSE 0)
    ELSE IF bold_or_heavy(span) THEN (IF istitle(text) THEN 2 ELSE 0)
    ELSE IF istitle(text) THEN 3
    ELSE 4

(* the subscripts of lines 51, 59 and 66 that name a key the outline lacks:
   toc[h0] at level 2, toc[h0][h1] at levels 3 and 4, each evaluated only
   when the if in front of it lets it *)
missing_key(outline, h, level) ==
    CASE level = 2 -> truthy(h[1]) /\ ~DictHas(outline, h[1])
      [] level = 3 -> /\ truthy(h[1]) /\ truthy(h[2])
                      /\ \/ ~DictHas(outline, h[1])
                         \/ ~DictHas(DictGet(outline, h[1]), h[2])
      [] level = 4 -> /\ truthy(h[1]) /\ truthy(h[2]) /\ truthy(h[3])
                      /\ \/ ~DictHas(outline, h[1])
                         \/ ~DictHas(DictGet(outline, h[1]), h[2])
      [] OTHER -> FALSE

(* lines 28-66: what one span does to toc and current_headings; page_num is
   the 0-based number of the page the span is on *)
scan_span(state, span, page_num, offset) ==
    LET stripped == span_strip(span.text)
        text == clean_heading(stripped)
        h == state.current_headings
        outline == state.toc
        page == page_num - offset + 1
        level == span_level(span, text)
    IN  IF stripped = "" \/ isnumeric(stripped) THEN state
        ELSE IF level = 0 THEN state
        ELSE IF level = 1
        THEN [state EXCEPT !.toc = IF DictHas(outline, text) THEN outline
                                   ELSE DictPut(outline, text, <<>>),
                           !.current_headings = <<text, None, None, None>>]
        ELSE IF level = 2
        THEN IF missing_key(outline, h, 2)
             THEN [state EXCEPT !.current_headings = <<h[1], text, None, None>>,
                                !.raised = "KeyError"]
             ELSE [state EXCEPT
                     !.toc = IF truthy(h[1]) /\ ~DictHas(DictGet(outline, h[1]), text)
                             THEN put_level2(outline, h[1], text, <<>>)
                             ELSE outline,
                     !.current_headings = <<h[1], text, None, None>>]
        ELSE IF level = 3
        THEN IF missing_key(outline, h, 3)
             THEN [state EXCEPT !.current_headings = <<h[1], h[2], text, None>>,
                                !.raised = "KeyError"]
             ELSE [state EXCEPT
                     !.toc = IF truthy(h[1]) /\ truthy(h[2])
                                /\ ~DictHas(DictGet(DictGet(outline, h[1]), h[2]), text)
                             THEN put_level3(outline, h[1], h[2], text, <<"int", page>>)
                             ELSE outline,
                     !.current_headings = <<h[1], h[2], text, None>>]
        ELSE IF missing_key(outline, h, 4)
             THEN [state EXCEPT !.current_headings = <<h[1], h[2], h[3], text>>,
                                !.raised = "KeyError"]
             ELSE [state EXCEPT
                     !.toc = IF truthy(h[1]) /\ truthy(h[2]) /\ truthy(h[3])
                             THEN put_level3(outline, h[1], h[2], h[3],
                                             <<"dict", << <<text, page>> >> >>)
                             ELSE outline,
                     !.current_headings = <<h[1], h[2], h[3], text>>]

(* enumerate(doc): the 0-based page of the k-th span *)
page_of_span(k) == (k - 1) \div SpansPerPage

RECURSIVE scan_spans(_, _, _, _)
scan_spans(state, spans, k, offset) ==
    IF k > Len(spans) \/ state.raised # None THEN state
    ELSE scan_spans(scan_span(state, spans[k], page_of_span(k), offset), spans, k + 1, offset)

(* lines 18-19 *)
NewOutline ==
    [toc |-> <<>>, current_headings |-> <<None, None, None, None>>, raised |-> None]

(* get_table_of_contents: fitz.open is not guarded, so a file PyMuPDF cannot
   open makes the call raise *)
get_table_of_contents(doc, offset) ==
    IF ~doc.exists THEN [raised |-> "FileNotFoundError", value |-> <<>>]
    ELSE IF doc.primary = "open_fails" THEN [raised |-> "FileDataError", value |-> <<>>]
    ELSE LET scanned == scan_spans(NewOutline, doc.spans, 1, offset)
         IN  [raised |-> scanned.raised,
              value |-> IF scanned.raised = None THEN scanned.toc ELSE <<>>]

(* the spans every outline document is made of, and documents with a
   numeric span, a blank span, a heading that carries a section sign and
   spans that are a section citation and nothing else *)
CoreSpans ==
    {Span(TRUE, "PART I"), Span(TRUE, "Scope"), Span(FALSE, "Venue"), Span(FALSE, "see note")}

OutlineSamples ==
    { <<Span(TRUE, "PART I"), Span(TRUE, "PART II"), Span(FALSE, "12"), Span(TRUE, "PART I")>>,
      <<Span(TRUE, "PART II"), Span(FALSE, " "), Span(FALSE, "Sec. 3 Venue"),
        Span(FALSE, "Scope")>>,
      <<Span(TRUE, "12"), Span(TRUE, " "), Span(TRUE, "see note"), Span(TRUE, "PART II")>>,
      <<Span(TRUE, "PART I"), Span(FALSE, "Sec. 12.3"), Span(TRUE, "Scope"),
        Span(FALSE, "Venue")>>,
      <<Span(TRUE, "Sec. 12.3"), Span(TRUE, "Scope"), Span(FALSE, "Venue"),
        Span(FALSE, "see note")>> }

OutlineDocuments ==
    {Document(TRUE, "ok", <<>>, "ok", <<>>, spans) :
        spans \in SeqsUpTo(CoreSpans, MaxSpans) \cup OutlineSamples}

InitOutline ==
    /\ legal_terms = <<>>
    /\ page_offset \in PageOffsets
    /\ terms_only = FALSE
    /\ index = <<>>
    /\ cross_references = <<>>
    /\ current_headings = NoHeadings
    /\ last_call = Call("__init__", <<>>, 0, None)
    /\ ncalls = 0
    /\ toc = NewOutline.toc
    /\ exporter = NoExporter
    /\ outputs = [f \in Formats |-> NotExported]
    /\ env \in {[document |-> d] : d \in OutlineDocuments}
    /\ run = [pc |-> "get_table_of_contents", span |-> 1,
              current_headings |-> NewOutline.current_headings, raised |-> None]
    /\ page_content = <<>>

(* one turn of the innermost loop of get_table_of_contents *)
ScanSpan ==
    /\ run.pc = "get_table_of_contents"
    /\ run.span <= Len(env.document.spans)
    /\ LET after == scan_span([toc |-> toc, current_headings |-> run.current_headings,
                               raised |-> None],
                              env.document.spans[run.span], page_of_span(run.span),
                              page_offset)
       IN  /\ toc' = after.toc
           /\ run' = [run EXCEPT !.span = @ + 1,
                                 !.current_headings = after.current_headings,
                                 !.raised = after.raised,
                                 !.pc = IF after.raised = None THEN @ ELSE "raised"]
    /\ UNCHANGED <<legal_terms, page_offset, terms_only, index, cross_references,
                   current_headings, last_call, ncalls, exporter, outputs, env,
                   page_content>>

(* return toc *)
ReturnOutline ==
    /\ run.pc = "get_table_of_contents"
    /\ run.span > Len(env.document.spans)
    /\ run' = [run EXCEPT !.pc = "returned"]
    /\ UNCHANGED <<legal_terms, page_offset, terms_only, index, cross_references,
                   current_headings, last_call, ncalls, toc, exporter, outputs, env,
                   page_content>>

NextOutline ==
    \/ ScanSpan
    \/ ReturnOutline

SpecOutline == InitOutline /\ [][NextOutline]_vars

(* The span the next turn of the loop looks at, and its cleaned text *)
ScannedSpan == env.document.spans[run.span]

ScannedText == clean_heading(span_strip(ScannedSpan.text))

(* C19: an emphasized title-case span seen while a level-1 heading is active
   becomes the active level-2 heading, unsets levels 3 and 4, and is a key
   under the active level-1 heading of the outline. *)
C19_BoldTitleCaseIsLevel2 ==
    [][(/\ run.pc = "get_table_of_contents"
        /\ run.span <= Len(env.document.spans)
        /\ bold_or_heavy(ScannedSpan)
        /\ istitle(ScannedText)
        /\ truthy(run.current_headings[1]))
          => /\ run'.current_headings = <<run.current_headings[1], ScannedText, None, None>>
             /\ DictHas(DictGet(toc', run.current_headings[1]), ScannedText)]_vars

(* What a turn of the loop may do to the value of an existing level-3 key *)
Level3ValueKept(before, after) ==
    \/ after = before
    \/ before[1] = "int" /\ after[1] = "dict" /\ Len(after[2]) = 1

(* C20: a key of level 1, 2 or 3 that is in the outline stays, with the keys
   below it; the value of a level-3 key stays as it is, except that its page
   number may give way to a level-4 mapping with one entry. *)
C20_OutlineKeysNeverReset ==
    [][\A a \in 1..Len(toc) :
          /\ DictHas(toc', toc[a][1])
          /\ \A b \in 1..Len(toc[a][2]) :
                /\ DictHas(DictGet(toc', toc[a][1]), toc[a][2][b][1])
                /\ \A c \in 1..Len(toc[a][2][b][2]) :
                      LET l3s == DictGet(DictGet(toc', toc[a][1]), toc[a][2][b][1])
                      IN  /\ DictHas(l3s, toc[a][2][b][2][c][1])
                          /\ Level3ValueKept(toc[a][2][b][2][c][2],
                                             DictGet(l3s, toc[a][2][b][2][c][1]))]_vars

(* A level-1 heading was seen again on a later page, after other spans, and
   its key is still the one made when it was first seen. *)
C20_Witness ==
    /\ run.pc = "returned"
    /\ Len(env.document.spans) = 5
    /\ env.document.spans[1] = Span(TRUE, "PART I")
    /\ env.document.spans[2] = Span(TRUE, "Scope")
    /\ env.document.spans[3] = Span(FALSE, "Venue")
    /\ env.document.spans[5] = Span(TRUE, "PART I")
    /\ toc = << <<"PART I", <<>> >> >>

-----------------------------------------------------------------------------
(* save_output (utils.py) *)

SupportedFormats == {"text", "json", "pdf", "docx", "csv", "xml", "md"}

(* whether open(path, 'w') succeeds *)
SinkStates == {"writable", "unwritable"}

(* What save_output leaves behind: the message it printed after "Error
   saving output:", if any, the exception it lets out, if any, and the file:
   untouched, opened and left empty, or written *)
Saved(reported, file, content) ==
    [reported |-> reported, raised |-> None, file |-> file, content |-> content]

(* with open(path, 'w') as f: f.write(<result>): the file is opened before
   the index is rendered *)
write_rendered(sink, result) ==
    IF sink = "unwritable" THEN Saved("OSError", "untouched", <<>>)
    ELSE IF result.raised # None THEN Saved(result.raised, "empty", <<>>)
    ELSE Saved(None, "written", result.value)

(* save_output for the formats text, json and csv and for a format that is
   not supported; the except clause of line 418 catches every exception of
   the try block and prints it *)
save_output(sink, idx, xrefs, outline, format, only_terms, suppress, style) ==
    LET ex == Exporter(idx, xrefs, outline, only_terms, suppress, style)
    IN  CASE format = "text" -> write_rendered(sink, to_text(ex))
          [] format = "json" -> write_rendered(sink, to_json(ex))
          [] format = "csv" -> write_rendered(sink, to_csv(ex))
          [] format \notin SupportedFormats -> Saved("ValueError", "untouched", <<>>)

(* Indexes as _add_to_index builds them: empty, one term, two terms, and a
   term recorded twice on a page under different headings *)
IndexSamples ==
    LET one == _add_to_index(<<>>, "Corporation", "business_entities", 1, 1,
                             <<"Corporation">>, NoHeadings)
    IN  { <<>>,
          one,
          _add_to_index(one, "Corp", "case_law_references", 2, 1, <<"Corp">>, NoHeadings),
          _add_to_index(one, "Corporation", "business_entities", 1, 1, <<"Corporation">>,
                        <<"PART I", "Scope", "Venue", None, None>>) }

SaveFormats == Formats \cup {"yaml"}

InitSave ==
    /\ legal_terms = <<>>
    /\ page_offset = 0
    /\ terms_only = FALSE
    /\ index \in IndexSamples
    /\ cross_references = <<>>
    /\ current_headings = NoHeadings
    /\ last_call = Call("__init__", <<>>, 0, None)
    /\ ncalls = 0
    /\ toc = SampleOutline
    /\ exporter = NoExporter
    /\ outputs = [f \in Formats |-> NotExported]
    /\ env \in [format : SaveFormats, sink : SinkStates, params : ExporterParams]
    /\ run = [pc |-> "save_output"]
    /\ page_content = <<>>

SaveOutputCall ==
    /\ run.pc = "save_output"
    /\ run' = [pc |-> "returned",
               saved |-> save_output(env.sink, index, cross_references, toc, env.format,
                                     env.params[1], env.params[2], env.params[3])]
    /\ UNCHANGED <<legal_terms, page_offset, terms_only, index, cross_references,
                   current_headings, last_call, ncalls, toc, exporter, outputs, env,
                   page_content>>

NextSave == SaveOutputCall

SpecSave == InitSave /\ [][NextSave]_vars

(* C14: a format outside the supported set is a fatal error: save_output
   reports it, writes nothing, and does not end the way a successful save
   ends, so that the run that asked for it cannot finish as a success. *)
C14_UnsupportedFormatIsFatal ==
    (run.pc = "returned" /\ env.format \notin SupportedFormats) =>
        /\ run.saved.reported = "ValueError" \/ run.saved.raised = "ValueError"
        /\ run.saved.file = "untouched"
        /\ run.saved.raised # None

-----------------------------------------------------------------------------
(* The command line run (main.py) *)

(* choices of --format *)
FormatChoices == {"text", "json", "pdf", "docx", "csv", "xml", "md"}

(* the state of a vocabulary file: absent, not JSON, or a JSON vocabulary *)
FileStates == {"missing", "malformed", "valid"}

(* the vocabulary a valid --custom-terms file holds, and the one the
   packaged legal_terms.json holds *)
CustomVocabulary ==
    << <<"business_entities", <<"corporation">> >>, <<"torts", <<"NEGLIGENCE">> >> >>

DefaultVocabulary ==
    << <<"criminal_law", <<"negligence">> >>,
       <<"torts", <<"negligence">> >>,
       <<"contracts", <<"consideration">> >>,
       <<"business_entities", <<"corporation", "corp">> >> >>

(* args.output.split('.')[-1].lower() *)
extension(output) ==
    CASE output = "legal_index.txt" -> "txt"
      [] output = "index.JSON" -> "json"
      [] output = "index.yaml" -> "yaml"

(* lines 122-128 *)
output_format(args) ==
    IF args.format # None THEN args.format
    ELSE IF extension(args.output) \in {"json", "pdf", "docx", "csv", "xml", "md"}
         THEN extension(args.output)
         ELSE "text"

(* The command lines of the model *)
MainArgs ==
    [custom_terms : {None, "my_terms.json"},
     format : {None, "json", "yaml"},
     output : {"legal_index.txt", "index.JSON", "index.yaml"},
     terms_only : BOOLEAN,
     page_offset : {0}]

(* The documents of the model: a path that does not exist, a file PyMuPDF
   cannot open, a file without pages, two pages with headings, a blank page
   that recognition cannot read, and a page whose extraction fails *)
MainDocuments ==
    { Document(FALSE, "open_fails", <<>>, "open_fails", <<>>, <<>>),
      Document(TRUE, "open_fails", <<>>, "ok", <<Str(<<"corporation">>)>>, <<>>),
      Document(TRUE, "ok", <<>>, "ok", <<>>, <<>>),
      Document(TRUE, "ok",
               << [get_text |-> Str(<<"negligence">>), ocr |-> OcrFails],
                  [get_text |-> Str(<<>>), ocr |-> Str(<<"corp">>)] >>,
               "ok", <<>>,
               <<Span(TRUE, "PART I"), Span(TRUE, "Scope"), Span(FALSE, "Venue"),
                 Span(FALSE, "see note")>>),
      Document(TRUE, "ok", << [get_text |-> Str(<<" ">>), ocr |-> OcrFails] >>,
               "ok", <<>>, <<>>),
      Document(TRUE, "ok",
               << [get_text |-> Raises, ocr |-> OcrFails],
                  [get_text |-> Str(<<"negligence">>), ocr |-> OcrFails] >>,
               "ok", <<>>, <<Span(TRUE, "PART II")>>) }

(* load_legal_terms: the file it reads, the exception that ends the process
   with sys.exit(1), if any, and the vocabulary it returns *)
load_legal_terms(args, files) ==
    LET terms_file == IF args.custom_terms # None /\ files.custom_terms # "missing"
                      THEN "custom" ELSE "default"
        state == IF terms_file = "custom" THEN files.custom_terms ELSE files.default_terms
    IN  [terms_file |-> terms_file,
         raised |-> CASE state = "missing" -> "FileNotFoundError"
                      [] state = "malformed" -> "JSONDecodeError"
                      [] state = "valid" -> None,
         value |-> IF state # "valid" THEN <<>>
                   ELSE IF terms_file = "custom" THEN CustomVocabulary
                   ELSE DefaultVocabulary]

(* lines 44-51: the heading path of the last level-3 entry of the outline
   whose page is page_num, or the path as it was *)
headings_for_page(outline, page_num, headings) ==
    LET page_of(l4_val) == IF l4_val[1] = "dict" THEN l4_val[2][1][2] ELSE l4_val[2]
        hits == Concat([a \in 1..Len(outline) |->
                  Concat([b \in 1..Len(outline[a][2]) |->
                    SelectSeq([c \in 1..Len(outline[a][2][b][2]) |->
                                  <<outline[a][1], outline[a][2][b][1],
                                    outline[a][2][b][2][c][1],
                                    page_of(outline[a][2][b][2][c][2])>>],
                              LAMBDA hit : hit[4] = page_num)])])
    IN  IF hits = <<>> THEN headings
        ELSE <<hits[Len(hits)][1], hits[Len(hits)][2], hits[Len(hits)][3], None, None>>

(* print(...) *)
Printed(r, message) == [r EXCEPT !.stdout = Append(@, message)]

(* the process ends with this status *)
Exited(r, status) == [r EXCEPT !.pc = "exited", !.exit_status = status]

main_except_exit_zero(r, error) == Exited(Printed(r, <<"Error", error>>), 0)

(* lines 165-167: except Exception as e: print(f"Error: {e}"); sys.exit(1) *)
main_except(r, error) == Exited(Printed(r, <<"Error", error>>), 1)

after_pages_no_links(r, i, total_pages) ==
    IF i = total_pages THEN [r EXCEPT !.pc = "save_output"] ELSE [r EXCEPT !.page = @ + 1]

(* lines 39 and 60: after the i-th page the loop goes to the next one, and
   after the last one process_document calls build_cross_references *)
after_pages(r, i, total_pages) ==
    IF i = total_pages
    THEN [r EXCEPT !.pc = "build_cross_references"]
    ELSE [r EXCEPT !.page = @ + 1]

NotSaved == [reported |-> None, raised |-> None, file |-> "untouched", content |-> <<>>]

(* The position of a run of main, what it has printed, its exit status, and
   what it has done so far: the pages the loop of line 39 has taken, in
   order, and the number of calls of build_cross_references *)
NewRun(pc, page) ==
    [pc |-> pc, exit_status |-> 0, stdout |-> <<>>,
     terms_file |-> None, output_format |-> None, page |-> page,
     pages_done |-> <<>>, links_built |-> 0,
     save_output_called |-> FALSE, saved |-> NotSaved]

InitMain ==
    /\ legal_terms = <<>>
    /\ page_offset = 0
    /\ terms_only = FALSE
    /\ index = <<>>
    /\ cross_references = <<>>
    /\ current_headings = NoHeadings
    /\ last_call = Call("__init__", <<>>, 0, None)
    /\ ncalls = 0
    /\ toc = <<>>
    /\ exporter = NoExporter
    /\ outputs = [f \in Formats |-> NotExported]
    /\ env \in [args : MainArgs,
                 files : [custom_terms : FileStates, default_terms : FileStates,
                          sink : SinkStates],
                 document : MainDocuments]
    /\ run = NewRun("parse_args", 0)
    /\ page_content = <<>>

(* line 115: argparse rejects a --format outside its choices with status 2 *)
ParseArgs ==
    /\ run.pc = "parse_args"
    /\ run' = IF env.args.format # None /\ env.args.format \notin FormatChoices
              THEN Exited(Printed(run, <<"usage", "invalid choice">>), 2)
              ELSE [run EXCEPT !.pc = "load_legal_terms"]
    /\ UNCHANGED <<legal_terms, page_offset, terms_only, index, cross_references,
                   current_headings, last_call, ncalls, toc, exporter, outputs, env,
                   page_content>>

(* line 119 *)
LoadLegalTerms ==
    /\ run.pc = "load_legal_terms"
    /\ LET r == load_legal_terms(env.args, env.files)
       IN  /\ legal_terms' = r.value
           /\ run' = IF r.raised # None
                     THEN Exited(Printed([run EXCEPT !.terms_file = r.terms_file],
                                         <<"Error loading legal terms", r.raised>>), 1)
                     ELSE [run EXCEPT !.pc = "LegalIndexGenerator",
                                      !.terms_file = r.terms_file]
    /\ UNCHANGED <<page_offset, terms_only, index, cross_references, current_headings,
                   last_call, ncalls, toc, exporter, outputs, env, page_content>>

(* lines 122-135 *)
NewGenerator ==
    /\ run.pc = "LegalIndexGenerator"
    /\ page_offset' = env.args.page_offset
    /\ terms_only' = env.args.terms_only
    /\ index' = <<>>
    /\ cross_references' = <<>>
    /\ current_headings' = NoHeadings
    /\ toc' = <<>>
    /\ page_content' = <<>>
    /\ run' = [run EXCEPT !.pc = "get_table_of_contents",
                          !.output_format = output_format(env.args)]
    /\ UNCHANGED <<legal_terms, last_call, ncalls, exporter, outputs, env>>

(* line 27 *)
GetTableOfContents ==
    /\ run.pc = "get_table_of_contents"
    /\ LET r == get_table_of_contents(env.document, page_offset)
       IN  /\ toc' = r.value
           /\ run' = IF r.raised # None THEN main_except(run, r.raised)
                     ELSE [run EXCEPT !.pc = "extract_text_from_pdf"]
    /\ UNCHANGED <<legal_terms, page_offset, terms_only, index, cross_references,
                   current_headings, last_call, ncalls, exporter, outputs, env,
                   page_content>>

(* lines 28-35 *)
ExtractText ==
    /\ run.pc = "extract_text_from_pdf"
    /\ LET r == extract_text_from_pdf(env.document)
       IN  /\ page_content' = r.value
           /\ run' = IF r.raised # None THEN main_except(run, r.raised)
                     ELSE IF Len(r.value) = 0
                     THEN [Printed(run, <<"Error", "No pages extracted from PDF">>)
                              EXCEPT !.pc = "save_output"]
                     ELSE [run EXCEPT !.pc = "process_page", !.page = 1]
    /\ UNCHANGED <<legal_terms, page_offset, terms_only, index, cross_references,
                   current_headings, last_call, ncalls, toc, exporter, outputs, env>>

(* lines 39-58: one turn of the page loop *)
ProcessPage ==
    /\ run.pc = "process_page"
    /\ LET page_num == page_content[run.page][1]
           text == page_content[run.page][2]
           headings == headings_for_page(toc, page_num, current_headings)
           r == identify_legal_concepts(index, legal_terms, page_offset, terms_only,
                                        headings, text, page_num)
           taken == [run EXCEPT !.pages_done = Append(@, page_num)]
           next == after_pages(taken, run.page, Len(page_content))
       IN  /\ current_headings' = headings
           /\ IF strip(text) = <<>>
              THEN /\ index' = index
                   /\ run' = next
              ELSE IF r.raised # None
              THEN /\ index' = r.index
                   /\ run' = main_except(taken, r.raised)
              ELSE /\ index' = extract_key_phrases(r.index, page_offset, headings, text,
                                                   page_num)
                   /\ run' = next
    /\ UNCHANGED <<legal_terms, page_offset, terms_only, cross_references, last_call,
                   ncalls, toc, exporter, outputs, env, page_content>>

(* lines 60-61 *)
BuildCrossReferencesInRun ==
    /\ run.pc = "build_cross_references"
    /\ cross_references' = build_cross_references(cross_references, index)
    /\ run' = [run EXCEPT !.pc = "save_output", !.links_built = @ + 1]
    /\ UNCHANGED <<legal_terms, page_offset, terms_only, index, current_headings,
                   last_call, ncalls, toc, exporter, outputs, env, page_content>>

(* lines 139-150; --suppress-categories and --context-style are left at
   their defaults *)
SaveOutput ==
    /\ run.pc = "save_output"
    /\ run' = [run EXCEPT !.pc = "finish", !.save_output_called = TRUE,
                          !.saved = save_output(env.files.sink, index, cross_references,
                                                toc, run.output_format, terms_only,
                                                <<>>, "none")]
    /\ UNCHANGED <<legal_terms, page_offset, terms_only, index, cross_references,
                   current_headings, last_call, ncalls, toc, exporter, outputs, env,
                   page_content>>

(* lines 152-163: the statistics, "Index generation complete!", and the end
   of main, which leaves the exit status 0 *)
Finish ==
    /\ run.pc = "finish"
    /\ run' = Exited(Printed(run, <<"Index generation complete!", None>>), 0)
    /\ UNCHANGED <<legal_terms, page_offset, terms_only, index, cross_references,
                   current_headings, last_call, ncalls, toc, exporter, outputs, env,
                   page_content>>

NextMain ==
    \/ ParseArgs
    \/ LoadLegalTerms
    \/ NewGenerator
    \/ GetTableOfContents
    \/ ExtractText
    \/ ProcessPage
    \/ BuildCrossReferencesInRun
    \/ SaveOutput
    \/ Finish

SpecMain == InitMain /\ [][NextMain]_vars

(* C13: when the output cannot be written, save_output reports the failure,
   the index built by the run is kept, and the run ends with an exit status
   that indicates failure. *)
C13_WriteFailureFailsRun ==
    [][(env.files.sink = "unwritable" /\ run.pc \in {"save_output", "finish"}) =>
          /\ index' = index
          /\ cross_references' = cross_references
          /\ run'.pc = "finish" => run'.saved.reported # None
          /\ run'.pc = "exited" => run'.exit_status # 0]_vars

(* C15: when the vocabulary file named with --custom-terms is missing or
   malformed, the run ends with a failure when it loads the vocabulary: no
   outline is built, no page is extracted or indexed, and no other
   vocabulary is loaded in its place. *)
C15_BadVocabularyFileIsFatal ==
    (/\ env.args.custom_terms # None
     /\ env.files.custom_terms \in {"missing", "malformed"}
     /\ run.pc \notin {"parse_args", "load_legal_terms"}) =>
        /\ run.pc = "exited"
        /\ run.exit_status # 0
        /\ run.terms_file # "default"
        /\ legal_terms = <<>>
        /\ toc = <<>> /\ page_content = <<>> /\ index = <<>>

(* C16: when the document path does not exist, no page is extracted or
   indexed, save_output is never called and nothing is written, the exit
   status is not zero, and the run reports an exception, not the "No pages
   extracted" message of an extraction that gave no text. *)
C16_MissingDocumentIsFatal ==
    ~env.document.exists =>
        /\ index = <<>> /\ page_content = <<>>
        /\ run.pc \notin {"extract_text_from_pdf", "process_page",
                           "build_cross_references", "save_output", "finish"}
        /\ ~run.save_output_called /\ run.saved.file = "untouched"
        /\ run.pc = "exited" =>
              /\ run.exit_status # 0
              /\ \A i \in 1..Len(run.stdout) :
                    run.stdout[i] # <<"Error", "No pages extracted from PDF">>
              /\ run.output_format # None
                    => run.stdout = << <<"Error", "FileNotFoundError">> >>

(* A run with a readable vocabulary was given a path that does not exist
   and ended with status 1 after reporting the exception. *)
C16_Witness ==
    /\ ~env.document.exists
    /\ run.pc = "exited"
    /\ run.terms_file = "custom"
    /\ run.output_format = "json"
    /\ run.exit_status = 1
    /\ run.stdout = << <<"Error", "FileNotFoundError">> >>

(* ---------------------------------------------------------------------- *)
(* Outline inference: citation-only spans, missing keys, depth             *)
(* ---------------------------------------------------------------------- *)

(* C21: a span whose text is empty or purely numeric once its section
   citations are stripped is skipped: the turn of the loop that looks at it
   changes neither the active headings nor the outline. *)
C21_CitationOnlySpanSkipped ==
    [][(/\ run.pc = "get_table_of_contents"
        /\ run.span <= Len(env.document.spans)
        /\ (ScannedText = "" \/ isnumeric(ScannedText)))
          => /\ toc' = toc
             /\ run'.current_headings = run.current_headings]_vars

(* Every value of the outline is a mapping, down to the page numbers *)
IsOutline(outline) ==
    \A a \in 1..Len(outline) :
        \A b \in 1..Len(outline[a][2]) :
            \A c \in 1..Len(outline[a][2][b][2]) :
                outline[a][2][b][2][c][2][1] \in {"int", "dict"}

(* C22: whatever the spans, no turn of the loop looks up a key the outline
   lacks: the scan never ends in an error, and what it returns is an
   outline. *)
C22_ClassificationNeverRaises ==
    /\ run.pc \in {"get_table_of_contents", "returned"}
    /\ run.raised = None
    /\ run.pc = "returned" => IsOutline(toc)

(* A scan that went through the level-3 and level-4 blocks, first with no
   heading active and then under a level-1 heading, and returned. *)
C22_Witness ==
    /\ run.pc = "returned"
    /\ Len(env.document.spans) = 5
    /\ env.document.spans[1] = Span(FALSE, "Venue")
    /\ env.document.spans[2] = Span(FALSE, "see note")
    /\ env.document.spans[3] = Span(TRUE, "PART I")
    /\ env.document.spans[4] = Span(FALSE, "Venue")
    /\ env.document.spans[5] = Span(FALSE, "see note")
    /\ run.current_headings = <<"PART I", None, "Venue", "see note">>

(* C29: all through the scan the active level-2 heading is unset, and the
   outline maps every level-1 heading to an empty mapping: there is no node of
   level 2, 3 or 4. *)
C29_OutlineIsLevel1Only ==
    /\ run.current_headings[2] = None
    /\ \A a \in 1..Len(toc) : toc[a][2] = <<>>

(* A scan over two level-1 headings, each followed by an emphasized
   title-case span and a plain title-case span, has returned. *)
C29_Witness ==
    /\ run.pc = "returned"
    /\ Len(env.document.spans) = 4
    /\ env.document.spans[1] = Span(TRUE, "PART I")
    /\ env.document.spans[2] = Span(TRUE, "Scope")
    /\ env.document.spans[3] = Span(FALSE, "Venue")
    /\ env.document.spans[4] = Span(FALSE, "see note")
    /\ toc = << <<"PART I", <<>> >> >>
    /\ run.current_headings = <<"PART I", None, "Venue", "see note">>

(* ---------------------------------------------------------------------- *)
(* process_document: heading paths, order of the steps                     *)
(* ---------------------------------------------------------------------- *)

(* Outlines with a level-3 heading, as get_table_of_contents writes them at
   lines 59-60 and 66: the heading "Venue" of "Scope" of "PART I" with a page
   number, or with a level-4 mapping that holds the page number, and one with
   a second level-3 heading on the next page *)
OutlinePages == {-1, 0, 1, 2, 3}

Level3Outline(l3s) == << <<"PART I", << <<"Scope", l3s>> >> >> >>

OutlineChoices ==
    {Level3Outline(<< <<"Venue", <<"int", p>> >> >>) : p \in OutlinePages}
    \cup {Level3Outline(<< <<"Venue", <<"dict", << <<"see note", p>> >> >> >> >>) :
            p \in OutlinePages}
    \cup {Level3Outline(<< <<"Venue", <<"int", p>> >>, <<"Scope", <<"int", p + 1>> >> >>) :
            p \in OutlinePages}

(* self.page_content of a document of n pages *)
PageContents ==
    UNION {[1..n -> {<<>>, <<"negligence">>}] : n \in 1..MaxPages}

(* process_document from line 38 on: the outline and the page texts are
   there, the loop over the pages starts *)
InitHeadings ==
    /\ legal_terms = DefaultVocabulary
    /\ page_offset \in PageOffsets
    /\ terms_only = TRUE
    /\ index = <<>>
    /\ cross_references = <<>>
    /\ current_headings = NoHeadings
    /\ last_call = Call("__init__", <<>>, 0, None)
    /\ ncalls = 0
    /\ toc \in OutlineChoices
    /\ exporter = NoExporter
    /\ outputs = [f \in Formats |-> NotExported]
    /\ env = [document |-> "given"]
    /\ run = NewRun("process_page", 1)
    /\ page_content \in {[i \in 1..Len(texts) |-> <<i, texts[i]>>] : texts \in PageContents}

NextHeadings ==
    \/ ProcessPage
    \/ BuildCrossReferencesInRun

SpecHeadings == InitHeadings /\ [][NextHeadings]_vars

(* C23: the heading path set before the page with raw number N is indexed is
   the path of the outline heading whose page is N minus the page offset, or
   the path of the page before when the outline has no such heading. *)
C23_HeadingPathOfOffsetPage ==
    [][run.pc = "process_page" =>
          current_headings' =
              headings_for_page(toc, page_content[run.page][1] - page_offset,
                                current_headings)]_vars

(* C24 as stated: once process_document has returned, build_cross_references
   has been invoked exactly once. *)
C24_LinkedExactlyOnce ==
    (run.pc \in {"save_output", "finish"} \/ run.save_output_called)
        => run.links_built = 1

(* C24: the pages are taken in ascending document order;
   build_cross_references is invoked at most once, after the last page; and
   once process_document has returned, which is before save_output is called,
   it has been invoked exactly once if the document gave at least one page
   and not at all if it gave none. *)
C24_LinkedOnceAfterLastPage ==
    /\ Len(run.pages_done) <= Len(page_content)
    /\ \A i \in 1..Len(run.pages_done) :
          /\ run.pages_done[i] = page_content[i][1]
          /\ i > 1 => run.pages_done[i - 1] < run.pages_done[i]
    /\ run.links_built <= 1
    /\ run.links_built = 1 =>
          Len(page_content) > 0 /\ Len(run.pages_done) = Len(page_content)
    /\ (run.pc \in {"save_output", "finish"} \/ run.save_output_called) =>
          run.links_built = (IF Len(page_content) = 0 THEN 0 ELSE 1)

(* A run over a document of two pages took both, in order, linked the
   cross-references once and then exported. *)
C24_Witness ==
    /\ run.pc = "finish"
    /\ run.pages_done = <<1, 2>>
    /\ run.links_built = 1
    /\ run.save_output_called

(* The default mode, an existing document PyMuPDF reads with a page that is
   not blank, a vocabulary file that loads, a format main accepts and an
   output path that can be written *)
C25_Precondition ==
    /\ ~env.args.terms_only
    /\ env.args.format \in {None} \cup FormatChoices
    /\ env.document.exists
    /\ env.document.primary = "ok"
    /\ \E i \in 1..Len(env.document.pages) :
          /\ env.document.pages[i].get_text[1] = "str"
          /\ strip(env.document.pages[i].get_text[2]) # <<>>
    /\ load_legal_terms(env.args, env.files).raised = None
    /\ env.files.sink = "writable"

(* main runs to its end: no step of it waits for anything, so every action
   of it is weakly fair. For the four steps that call into the outline, the
   extractor, the indexer and the exporter, weak fairness is written out:
   such a step is enabled exactly while run.pc names it, and it is the only
   step NextMain allows there *)
LibraryStepsRunOn ==
    \/ []<>(run.pc \notin {"get_table_of_contents", "extract_text_from_pdf",
                            "process_page", "save_output"})
    \/ []<><<NextMain>>_vars

SpecMainFair ==
    /\ SpecMain
    /\ WF_vars(ParseArgs)
    /\ WF_vars(LoadLegalTerms)
    /\ WF_vars(NewGenerator)
    /\ WF_vars(BuildCrossReferencesInRun)
    /\ WF_vars(Finish)
    /\ LibraryStepsRunOn

(* C25: such a run eventually writes the output and ends with status 0. *)
C25_DefaultRunSucceeds ==
    (C25_Precondition /\ run.pc = "parse_args")
        ~> (run.pc = "exited" /\ run.exit_status = 0 /\ run.saved.file = "written")

(* ---------------------------------------------------------------------- *)
(* Blank pages                                                             *)
(* ---------------------------------------------------------------------- *)

(* C26: a call of identify_legal_concepts or extract_key_phrases on a page
   text that is empty or blank raises nothing and leaves the index as it
   was, whatever the terms-only flag is. *)
C26_BlankPageIndexesNothing ==
    [][(/\ ncalls' = ncalls + 1
        /\ last_call'.op \in {"identify_legal_concepts", "extract_key_phrases"}
        /\ strip(last_call'.text) = <<>>)
          => /\ last_call'.raised = None
             /\ index' = index]_vars

(* ---------------------------------------------------------------------- *)
(* Context styles                                                          *)
(* ---------------------------------------------------------------------- *)

(* The blocks of a text rendering that list a term *)
TermBlocks(rendering) ==
    {rendering[i] : i \in {j \in 2..Len(rendering) : rendering[j][1] \notin {"==", "--"}}}

(* C27: in a text rendering made with the context style 'snippet' or
   'headings', the block of every term lists each occurrence with its page
   and its context, also when the term has one occurrence. *)
C27_ContextStyleRendersEveryOccurrence ==
    (/\ exporter.built
     /\ exporter.context_style \in {"snippet", "headings"}
     /\ outputs["text"].done
     /\ outputs["text"].raised = None)
        => \A block \in TermBlocks(outputs["text"].value) :
              block[2] = exporter.context_style

(* ---------------------------------------------------------------------- *)
(* The sections of an Exporter                                             *)
(* ---------------------------------------------------------------------- *)

(* The terms of a section *)
Terms(section) == {section[i][1] : i \in 1..Len(section)}

(* C30: with terms-only off every term of the filtered index is in
   case_law_references, statutory_references or subject_matter_index, and
   subject_matter_index has no term in common with the other two; with
   terms-only on subject_matter_index is the whole filtered index, citation
   terms included, and the other two sections are empty. *)
C30_SectionsPartitionFilteredIndex ==
    exporter.built =>
        IF exporter.terms_only
        THEN /\ exporter.subject_matter_index = exporter.index
             /\ exporter.case_law_references = <<>>
             /\ exporter.statutory_references = <<>>
        ELSE /\ Terms(exporter.index) =
                    Terms(exporter.case_law_references)
                    \cup Terms(exporter.statutory_references)
                    \cup Terms(exporter.subject_matter_index)
             /\ Terms(exporter.subject_matter_index)
                    \cap (Terms(exporter.case_law_references)
                          \cup Terms(exporter.statutory_references)) = {}

(* An Exporter with terms-only off was built from an index with a citation
   term and a vocabulary term: the first is in case_law_references only, the
   second in subject_matter_index only. *)
C30_Witness ==
    /\ exporter.built
    /\ ~exporter.terms_only
    /\ Terms(exporter.index) = {"Corporation", "Corp"}
    /\ Cardinality(Terms(exporter.case_law_references)) = 1
    /\ Cardinality(Terms(exporter.subject_matter_index)) = 1

(* ---------------------------------------------------------------------- *)
(* set_current_headings and the caller's list                              *)
(* ---------------------------------------------------------------------- *)

(* The number of list objects of a behaviour: the one __init__ makes and the
   ones the caller passes to set_current_headings *)
MaxLists == 3

(* An occurrence that holds the list object itself, not its content *)
same_list(lists, id) == <<"list", id>>

(* line 25: self.current_headings.copy(), the content the list has now *)
copy(lists, id) == lists[id]

(* The heading path a reader of an occurrence finds in it *)
headings_of(entry, lists) ==
    IF Len(entry[3]) = 2 THEN lists[entry[3][2]] ELSE entry[3]

(* The occurrences of an index as a reader finds them *)
Occurrences(idx, lists) ==
    UNION {UNION {{[term |-> idx[t][1], category |-> idx[t][2][c][1], position |-> i,
                    page |-> idx[t][2][c][2][i][1], snippet |-> idx[t][2][c][2][i][2],
                    headings |-> headings_of(idx[t][2][c][2][i], lists)] :
                     i \in 1..Len(idx[t][2][c][2])} :
                  c \in 1..Len(idx[t][2])} :
           t \in 1..Len(idx)}

(* An indexer and a caller that keeps the lists it has passed in: env.lists
   holds the content of every list object, the first being the list of
   line 13, and run.current tells which of them self.current_headings is *)
InitAlias ==
    /\ legal_terms = <<>>
    /\ page_offset = 0
    /\ terms_only = TRUE
    /\ index = <<>>
    /\ cross_references = <<>>
    /\ current_headings = NoHeadings
    /\ last_call = Call("__init__", <<>>, 0, None)
    /\ ncalls = 0
    /\ toc = <<>>
    /\ exporter = NoExporter
    /\ outputs = [f \in Formats |-> NotExported]
    /\ env = [lists |-> <<NoHeadings>>]
    /\ run = [pc |-> "library", current |-> 1]
    /\ page_content = <<>>

(* set_current_headings(headings) with a list the caller has just made:
   line 16 stores the list itself *)
SetCurrentHeadingsList ==
    \E path \in HeadingPaths :
        /\ Len(env.lists) < MaxLists
        /\ env' = [env EXCEPT !.lists = Append(@, path)]
        /\ run' = [run EXCEPT !.current = Len(env.lists) + 1]
        /\ current_headings' = path
        /\ last_call' = Call("set_current_headings", <<>>, 0, None)
        /\ UNCHANGED <<legal_terms, page_offset, terms_only, index, cross_references,
                       ncalls, toc, exporter, outputs, page_content>>

(* the caller changes a list it has passed in; self.current_headings shows
   the change if it is that list *)
ChangePassedList ==
    \E id \in 2..Len(env.lists), path \in HeadingPaths :
        /\ path # env.lists[id]
        /\ env' = [env EXCEPT !.lists[id] = path]
        /\ current_headings' = IF id = run.current THEN path ELSE current_headings
        /\ last_call' = Call("caller", <<>>, 0, None)
        /\ UNCHANGED <<legal_terms, page_offset, terms_only, index, cross_references,
                       ncalls, toc, exporter, outputs, run, page_content>>

(* _add_to_index for a match of term on a page *)
RecordOccurrence ==
    \E term \in ExportTerms, page_num \in RawPages :
        /\ ncalls < MaxAdds
        /\ ncalls' = ncalls + 1
        /\ index' = _add_to_index(index, term, "business_entities", page_num, 1, <<term>>,
                                  copy(env.lists, run.current))
        /\ last_call' = Call("_add_to_index", <<>>, 0, None)
        /\ UNCHANGED <<legal_terms, page_offset, terms_only, cross_references,
                       current_headings, toc, exporter, outputs, env, run, page_content>>

NextAlias ==
    \/ SetCurrentHeadingsList
    \/ ChangePassedList
    \/ RecordOccurrence

SpecAlias == InitAlias /\ [][NextAlias]_vars

(* C28: an occurrence is recorded with the heading path of the list last
   passed to set_current_headings, and once recorded it keeps its page,
   snippet and heading path whatever happens next: another
   set_current_headings, other occurrences, or the caller changing a list it
   passed in. *)
C28_OccurrencesKeepTheirPath ==
    [][/\ Occurrences(index, env.lists) \subseteq Occurrences(index', env'.lists)
       /\ \A o \in Occurrences(index', env'.lists) \ Occurrences(index, env.lists) :
             o.headings = current_headings /\ o.headings = env.lists[run.current]]_vars

(* An occurrence was recorded under a path passed to set_current_headings,
   the caller then cleared the list it had passed, and the occurrence still
   has the path. *)
C28_Witness ==
    /\ Len(env.lists) = 2
    /\ run.current = 2
    /\ env.lists[2] = NoHeadings
    /\ current_headings = NoHeadings
    /\ \E o \in Occurrences(index, env.lists) :
          o.headings = <<"PART I", "Scope", "Venue", None, None>>

====
